---- MODULE Spec2Model ----
(***************************************************************************)
(* Model of the dense matrix class of cpp-math-library (math::matrix in    *)
(* src/src/math_matrix.cc and the template math::Matrix<T> in              *)
(* src/src/math_matrix.h).                                                 *)
(*                                                                         *)
(* Elements are exact rationals <<numerator, denominator>> in lowest terms *)
(* with a positive denominator: the value_type double in exact arithmetic. *)
(* A matrix object is a record [rows, columns, data]; data is the row-major*)
(* std::vector, so element (row, column) of the code (0-based) is          *)
(* data[columns * row + column + 1].                                       *)
(***************************************************************************)
EXTENDS Integers, Sequences, FiniteSets, TLC

VARIABLES m, res, operand, before, shares

vars == <<m, res, operand, before, shares>>

----------------------------------------------------------------------------
(* Bounds of the model *)

\* longest data_ vector of an input matrix (rows * columns <= MaxLen)
MaxLen == 9

\* largest size argument handed to the diagonal constructor
MaxSize == 3

\* element values of the input matrices
Vals == {0, 1}

----------------------------------------------------------------------------
(* value_type: exact rational arithmetic *)

RECURSIVE GCD(_, _)
GCD(a, b) == IF b = 0 THEN a ELSE GCD(b, a % b)

Abs(x) == IF x < 0 THEN -x ELSE x

Sign(x) == IF x < 0 THEN -1 ELSE IF x = 0 THEN 0 ELSE 1

\* lowest terms; a zero denominator stands for the IEEE infinities and NaN
Norm(n, d) ==
  IF d = 0 THEN <<Sign(n), 0>>
  ELSE LET g == GCD(Abs(n), Abs(d))
       IN  <<Sign(d) * (n \div g), Abs(d) \div g>>

Rat(n) == <<n, 1>>

Zero == Rat(0)

One == Rat(1)

RAdd(x, y) == Norm(x[1] * y[2] + y[1] * x[2], x[2] * y[2])

RSub(x, y) == Norm(x[1] * y[2] - y[1] * x[2], x[2] * y[2])

RMul(x, y) == Norm(x[1] * y[1], x[2] * y[2])

RDiv(x, y) == Norm(x[1] * y[2], x[2] * y[1])

\* the C++ test !x of a value_type
IsZero(x) == x[1] = 0 /\ x[2] # 0

----------------------------------------------------------------------------
(* Outcomes of a call.  err is "none" or the kind of the exception thrown, *)
(* kind says what is returned, mat is the matrix returned, num the scalar  *)
(* returned, truth the bool returned, log the set of unchecked element     *)
(* accesses the call made, each <<rows, columns, row, column>> of the      *)
(* accessed matrix.                                                        *)

NoMatrix == [rows |-> 0, columns |-> 0, data |-> <<>>]

Mat(r, c, d) == [rows |-> r, columns |-> c, data |-> d]

\* a matrix is returned
Ok(mat, log) ==
  [err |-> "none", kind |-> "matrix", mat |-> mat, num |-> Zero, truth |-> FALSE,
   log |-> log]

\* a value_type is returned
OkNum(num, log) ==
  [err |-> "none", kind |-> "number", mat |-> NoMatrix, num |-> num, truth |-> FALSE,
   log |-> log]

\* an exception of the given kind leaves the call; nothing is returned
Throw(kind, log) ==
  [err |-> kind, kind |-> "nothing", mat |-> NoMatrix, num |-> Zero, truth |-> FALSE,
   log |-> log]

\* a bool is returned
OkBool(truth) ==
  [err |-> "none", kind |-> "bool", mat |-> NoMatrix, num |-> Zero, truth |-> truth,
   log |-> {}]

\* the access get_element(row, column) on mat, as a log entry
Acc(mat, row, column) == <<mat.rows, mat.columns, row, column>>

\* r, the accesses log made before it added
AddLog(r, log) == [r EXCEPT !.log = @ \cup log]

\* the outcome of a loop that ended with matrix r.mat
AsMatrix(r) == Ok(r.mat, r.log)

\* the outcome of a loop that ended with value r.num
AsNumber(r) == OkNum(r.num, r.log)

----------------------------------------------------------------------------
(* Private helpers of matrix *)

\* get_element with the column-major index rows_ * column + row
get_element_column_major(mat, row, column, junk) ==
  LET i == mat.rows * column + row
  IN  IF i < Len(mat.data) THEN mat.data[i + 1] ELSE junk

\* matrix::get_element: data_[columns_ * row + column], no bounds check.
\* An index past the end of data_ is undefined behaviour: the read yields junk.
get_element(mat, row, column, junk) ==
  LET i == mat.columns * row + column
  IN  IF i < Len(mat.data) THEN mat.data[i + 1] ELSE junk

\* bounds_check with > for >=
bounds_check_strict(mat, row, column) == row > mat.rows \/ column > mat.columns

\* matrix::bounds_check: TRUE when it throws std::out_of_range
bounds_check(mat, row, column) == row >= mat.rows \/ column >= mat.columns

\* square_check with > for !=
square_check_greater(mat) == mat.rows > mat.columns

\* matrix::square_check: TRUE when it throws std::logic_error
square_check(mat) == mat.rows # mat.columns

\* matrix::find_not_zero_row: the element is read before from_row is compared
\* with rows_.  Returns the row and the accesses made.
RECURSIVE find_not_zero_row(_, _, _, _)
find_not_zero_row(mat, from_row, column, junk) ==
  LET here == {Acc(mat, from_row, column)}
  IN  IF IsZero(get_element(mat, from_row, column, junk)) /\ from_row < mat.rows
      THEN LET rest == find_not_zero_row(mat, from_row + 1, column, junk)
           IN  [row |-> rest.row, log |-> here \cup rest.log]
      ELSE [row |-> from_row, log |-> here]

----------------------------------------------------------------------------
(* Constructors *)

\* matrix(rows, columns) with rows_ and columns_ initialised from each other's
\* argument
matrix_columns_first(rows, columns) ==
  IF rows = 0 \/ columns = 0
  THEN Throw("InvalidDimension", {})
  ELSE Ok(Mat(columns, rows, [i \in 1..(rows * columns) |-> Zero]), {})

\* matrix(rows, columns) with && for || in the test of the dimensions
matrix_both_zero(rows, columns) ==
  IF rows = 0 /\ columns = 0
  THEN Throw("InvalidDimension", {})
  ELSE Ok(Mat(rows, columns, [i \in 1..(rows * columns) |-> Zero]), {})

\* matrix::matrix(size_type rows, size_type columns)
matrix(rows, columns) ==
  IF rows = 0 \/ columns = 0
  THEN Throw("InvalidDimension", {})
  ELSE Ok(Mat(rows, columns, [i \in 1..(rows * columns) |-> Zero]), {})

\* matrix::matrix(size_type size, const_reference diag)
matrix_diag(size, diag) ==
  LET base == matrix(size, size)
  IN  IF base.err # "none" THEN base
      ELSE Ok(Mat(size, size,
                  [i \in 1..(size * size) |->
                     IF (i - 1) \div size = (i - 1) % size THEN diag ELSE Zero]),
              {Acc(base.mat, i, i) : i \in 0..(size - 1)})

----------------------------------------------------------------------------
(* Checked access, initializer-list and vector constructors *)

\* matrix::operator()(row, column): bounds_check, then get_element
at(mat, row, column) ==
  IF bounds_check(mat, row, column) THEN Throw("OutOfRange", {})
  ELSE OkNum(get_element(mat, row, column, Zero), {Acc(mat, row, column)})

\* matrix::operator()(row, column) = value: bounds_check, then the write through
\* the reference get_element returns
at_assign(mat, row, column, value) ==
  IF bounds_check(mat, row, column) THEN Throw("OutOfRange", {})
  ELSE Ok([mat EXCEPT !.data[mat.columns * row + column + 1] = value],
          {Acc(mat, row, column)})

\* the rows of an initializer list, one after the other
RECURSIVE Flatten(_)
Flatten(items) == IF items = <<>> THEN <<>> ELSE Head(items) \o Flatten(Tail(items))

\* matrix(initializer_list) with rows_ taken from the first row's size and
\* columns_ from the number of rows
matrix_list_sizes_swapped(items) ==
  IF Len(items) = 0 THEN Throw("InvalidDimension", {})
  ELSE IF Len(items[1]) = 0 THEN Throw("InvalidDimension", {})
  ELSE IF \E r \in 1..Len(items) : Len(items[r]) # Len(items[1])
  THEN Throw("RaggedInput", {})
  ELSE Ok(Mat(Len(items[1]), Len(items), Flatten(items)), {})

\* matrix::matrix(initializer_list<initializer_list<value_type>>)
matrix_list(items) ==
  IF Len(items) = 0 THEN Throw("InvalidDimension", {})
  ELSE IF Len(items[1]) = 0 THEN Throw("InvalidDimension", {})
  ELSE IF \E r \in 1..Len(items) : Len(items[r]) # Len(items[1])
  THEN Throw("RaggedInput", {})
  ELSE Ok(Mat(Len(items), Len(items[1]), Flatten(items)), {})

\* matrix(const vector&, bool) with the two arms of is_column exchanged
matrix_vector_flag_inverted(v, is_column) ==
  LET base == matrix(IF is_column THEN 1 ELSE Len(v), IF is_column THEN Len(v) ELSE 1)
  IN  IF base.err # "none" THEN base
      ELSE Ok(Mat(base.mat.rows, base.mat.columns,
                  [q \in 1..Len(base.mat.data) |-> v[q]]),
              {Acc(base.mat, IF is_column THEN 0 ELSE i, IF is_column THEN i ELSE 0) :
                 i \in 0..(Len(v) - 1)})

\* matrix::matrix(const vector&, bool is_column); v is the vector's data_
matrix_vector(v, is_column) ==
  LET base == matrix(IF is_column THEN Len(v) ELSE 1, IF is_column THEN 1 ELSE Len(v))
  IN  IF base.err # "none" THEN base
      ELSE Ok(Mat(base.mat.rows, base.mat.columns,
                  [q \in 1..Len(base.mat.data) |-> v[q]]),
              {Acc(base.mat, IF is_column THEN i ELSE 0, IF is_column THEN 0 ELSE i) :
                 i \in 0..(Len(v) - 1)})

----------------------------------------------------------------------------
(* Scalar arithmetic and transposition *)

\* matrix::operator*=(const value_type&): every element times value
mul_scalar(mat, value) ==
  Mat(mat.rows, mat.columns, [i \in 1..Len(mat.data) |-> RMul(mat.data[i], value)])

\* matrix::operator/=(const value_type&): *this *= (1.0 / value)
div_scalar(mat, value) == mul_scalar(mat, RDiv(One, value))

\* the operator / of int: the quotient with the fraction discarded
IntDiv(x, y) == Rat(Sign(x[1]) * Sign(y[1]) * (Abs(x[1]) \div Abs(y[1])))

\* Matrix::operator*=(const ValueType&): el *= value for every element
MulScalar(mat, value) ==
  Mat(mat.rows, mat.columns, [i \in 1..Len(mat.data) |-> RMul(mat.data[i], value)])

\* Matrix<int>::operator/=(const ValueType&): *this *= (1 / value), the
\* operands of / both of type int
DivScalarInt(mat, value) == MulScalar(mat, IntDiv(One, value))

\* Matrix<int>::operator/(const ValueType&): a copy of *this, then /=
DivideInt(mat, value) == Ok(DivScalarInt(mat, value), {})

\* transposed with result(i, j) = this(i, j)
transposed_straight(mat) ==
  LET result == matrix(mat.columns, mat.rows).mat
  IN  Ok(Mat(result.rows, result.columns,
             [q \in 1..Len(result.data) |->
                LET i == (q - 1) \div result.columns
                    j == (q - 1) % result.columns
                IN  get_element(mat, i, j, Zero)]),
         {})

\* matrix::transposed
transposed(mat) ==
  LET result == matrix(mat.columns, mat.rows).mat
  IN  Ok(Mat(result.rows, result.columns,
             [q \in 1..Len(result.data) |->
                LET i == (q - 1) \div result.columns
                    j == (q - 1) % result.columns
                IN  get_element(mat, j, i, Zero)]),
         UNION {{Acc(result, i, j), Acc(mat, j, i)} :
                  <<i, j>> \in (0..(result.rows - 1)) \X (0..(result.columns - 1))})

----------------------------------------------------------------------------
(* Matrix arithmetic.  An in-place operator returns the receiver as it is   *)
(* after the call, or throws before writing anything.                       *)

\* is_sizes_equal comparing rows_ with other.columns_ and columns_ with other.rows_
is_sizes_equal_crossed(mat, other) ==
  mat.rows # other.columns \/ mat.columns # other.rows

\* matrix::is_sizes_equal: TRUE when it throws std::invalid_argument
is_sizes_equal(mat, other) ==
  mat.rows # other.rows \/ mat.columns # other.columns

\* matrix::is_inner_sizes_equal: TRUE when it throws std::invalid_argument
is_inner_sizes_equal(mat, other) == mat.columns # other.rows

\* matrix::operator+=(const matrix&)
add_assign(mat, other) ==
  IF is_sizes_equal(mat, other) THEN Throw("SizeMismatch", {})
  ELSE Ok(Mat(mat.rows, mat.columns,
              [q \in 1..Len(mat.data) |-> RAdd(mat.data[q], other.data[q])]), {})

\* matrix::operator-=(const matrix&)
sub_assign(mat, other) ==
  IF is_sizes_equal(mat, other) THEN Throw("SizeMismatch", {})
  ELSE Ok(Mat(mat.rows, mat.columns,
              [q \in 1..Len(mat.data) |-> RSub(mat.data[q], other.data[q])]), {})

\* inner_product that stops after the term k0
inner_product_first(mat, other, i, j, k0, acc) ==
  IF k0 < mat.columns
  THEN RAdd(acc, RMul(get_element(mat, i, k0, Zero), get_element(other, k0, j, Zero)))
  ELSE acc

\* matrix::operator*=(const matrix&), lines 176-177: result(i, j) += this(i, k) *
\* other(k, j) for k from k0 on, acc being result(i, j) so far
RECURSIVE inner_product(_, _, _, _, _, _)
inner_product(mat, other, i, j, k0, acc) ==
  IF k0 < mat.columns
  THEN inner_product(mat, other, i, j, k0 + 1,
                     RAdd(acc, RMul(get_element(mat, i, k0, Zero),
                                    get_element(other, k0, j, Zero))))
  ELSE acc

\* matrix::operator*=(const matrix&)
mul_assign(mat, other) ==
  IF is_inner_sizes_equal(mat, other) THEN Throw("InnerSizeMismatch", {})
  ELSE LET result == matrix(mat.rows, other.columns).mat
       IN  Ok(Mat(result.rows, result.columns,
                  [q \in 1..Len(result.data) |->
                     inner_product(mat, other, (q - 1) \div result.columns,
                                   (q - 1) % result.columns, 0, result.data[q])]),
              UNION {{Acc(result, i, j), Acc(mat, i, k), Acc(other, k, j)} :
                       <<i, j, k>> \in (0..(result.rows - 1)) \X
                                       (0..(result.columns - 1)) \X
                                       (0..(mat.columns - 1))})

\* std::transform(begin(), end(), other.begin(), begin(), plus or minus) with
\* other the receiver itself: from position q on, every position is read
\* twice from the storage as it is then and written back
RECURSIVE transform_self(_, _, _)
transform_self(data, q, sign) ==
  IF q > Len(data) THEN data
  ELSE transform_self([data EXCEPT ![q] = IF sign = "+=" THEN RAdd(data[q], data[q])
                                         ELSE RSub(data[q], data[q])],
                      q + 1, sign)

\* the products written into the storage of the receiver itself, position by
\* position from q on, each read from the storage as it is then
RECURSIVE products_unbuffered(_, _)
products_unbuffered(mat, q) ==
  IF q > Len(mat.data) THEN mat
  ELSE products_unbuffered(
         [mat EXCEPT !.data[q] = inner_product(mat, mat, (q - 1) \div mat.columns,
                                               (q - 1) % mat.columns, 0, Zero)],
         q + 1)

\* assign_self with operator*= working in the receiver, without the local result
assign_self_unbuffered(sign, mat) ==
  IF sign = "*="
  THEN IF is_inner_sizes_equal(mat, mat) THEN Throw("InnerSizeMismatch", {})
       ELSE Ok(products_unbuffered(mat, 1), {})
  ELSE IF is_sizes_equal(mat, mat) THEN Throw("SizeMismatch", {})
  ELSE Ok(Mat(mat.rows, mat.columns, transform_self(mat.data, 1, sign)), {})

\* matrix::operator+=, operator-=, operator*= with the receiver as the
\* argument (mat += mat): other is a reference to *this.  += and -= read and
\* write the one storage; *= fills the local matrix result from it and moves
\* result into *this after the loops.
assign_self(sign, mat) ==
  IF sign = "*=" THEN mul_assign(mat, mat)
  ELSE IF is_sizes_equal(mat, mat) THEN Throw("SizeMismatch", {})
  ELSE Ok(Mat(mat.rows, mat.columns, transform_self(mat.data, 1, sign)), {})

\* operator+(const matrix&, const matrix&): a copy of l, then +=
plus(l, r) == add_assign(l, r)

\* operator- with a copy of r, then -= l
minus_swapped(l, r) == sub_assign(r, l)

\* operator-(const matrix&, const matrix&): a copy of l, then -=
minus(l, r) == sub_assign(l, r)

\* operator*(const matrix&, const matrix&): a copy of l, then *=
times(l, r) == mul_assign(l, r)

\* operator==(const matrix&, const matrix&)
equal(l, r) ==
  IF l.rows # r.rows \/ l.columns # r.columns THEN FALSE
  ELSE l.data = r.data

\* operator!=(const matrix&, const matrix&)
not_equal(l, r) == ~equal(l, r)

\* Matrix::operator==: i1 and i2 both start at Begin() of the receiver, so
\* each element of the receiver is compared with itself
Equal(mat, other) ==
  IF mat.rows # other.rows \/ mat.columns # other.columns THEN FALSE
  ELSE \A q \in 1..Len(mat.data) : ~(mat.data[q] # mat.data[q])

\* Matrix::operator!=
NotEqual(mat, other) == ~Equal(mat, other)

\* matrix::operator-(): *this * -1
unary_minus(mat) == Ok(mul_scalar(mat, Rat(-1)), {})

\* matrix::operator+(): matrix(*this)
unary_plus(mat) == Ok(mat, {})

\* matrix::set_rows
set_rows(mat, rows) ==
  IF rows = 0 THEN Throw("InvalidDimension", {})
  ELSE LET new_matrix == matrix(rows, mat.columns).mat
           kept == IF rows < mat.rows THEN rows ELSE mat.rows
       IN  Ok(Mat(new_matrix.rows, new_matrix.columns,
                  [q \in 1..Len(new_matrix.data) |->
                     IF (q - 1) \div new_matrix.columns < kept
                     THEN get_element(mat, (q - 1) \div new_matrix.columns,
                                      (q - 1) % new_matrix.columns, Zero)
                     ELSE new_matrix.data[q]]),
              UNION {{Acc(new_matrix, i, j), Acc(mat, i, j)} :
                       <<i, j>> \in (0..(kept - 1)) \X (0..(mat.columns - 1))})

\* set_columns keeping the linear index of every element
set_columns_flat(mat, columns) ==
  IF columns = 0 THEN Throw("InvalidDimension", {})
  ELSE Ok(Mat(mat.rows, columns,
              [q \in 1..(mat.rows * columns) |->
                 IF q <= Len(mat.data) THEN mat.data[q] ELSE Zero]), {})

\* matrix::set_columns
set_columns(mat, columns) ==
  IF columns = 0 THEN Throw("InvalidDimension", {})
  ELSE LET new_matrix == matrix(mat.rows, columns).mat
           kept == IF columns < mat.columns THEN columns ELSE mat.columns
       IN  Ok(Mat(new_matrix.rows, new_matrix.columns,
                  [q \in 1..Len(new_matrix.data) |->
                     IF (q - 1) % new_matrix.columns < kept
                     THEN get_element(mat, (q - 1) \div new_matrix.columns,
                                      (q - 1) % new_matrix.columns, Zero)
                     ELSE new_matrix.data[q]]),
              UNION {{Acc(new_matrix, i, j), Acc(mat, i, j)} :
                       <<i, j>> \in (0..(mat.rows - 1)) \X (0..(kept - 1))})

----------------------------------------------------------------------------
(* Minor *)

\* minor_copy with the column loop skipping j == row instead of j == column
minor_copy_skips_row(mat, row, column) ==
  LET result == matrix(mat.rows - 1, mat.columns - 1).mat
      im(i)  == Cardinality({i2 \in 0..(i - 1) : i2 # row})
      jm(j)  == Cardinality({j2 \in 0..(j - 1) : j2 # row})
      copied == {ij \in (0..(mat.rows - 1)) \X (0..(mat.columns - 1)) :
                   ij[1] # row /\ ij[2] # row}
      into(q) == {ij \in copied : result.columns * im(ij[1]) + jm(ij[2]) = q - 1}
  IN  Ok(Mat(result.rows, result.columns,
             [q \in 1..Len(result.data) |->
                IF into(q) = {} THEN result.data[q]
                ELSE LET ij == CHOOSE a \in into(q) :
                                  \A b \in into(q) :
                                     mat.columns * b[1] + b[2] <=
                                     mat.columns * a[1] + a[2]
                     IN  get_element(mat, ij[1], ij[2], Zero)]),
         {})

\* matrix::minor_matrix, lines 244-260.  The loops visit the rows i # row and,
\* within each, the columns j # column in increasing order; im and jm count
\* the rows and columns already copied, and result(im, jm), the element
\* columns * im + jm of the result's data_, receives this(i, j).  An element
\* written twice keeps the last value written.
minor_copy(mat, row, column) ==
  LET result == matrix(mat.rows - 1, mat.columns - 1).mat
      im(i)  == Cardinality({i2 \in 0..(i - 1) : i2 # row})
      jm(j)  == Cardinality({j2 \in 0..(j - 1) : j2 # column})
      copied == {ij \in (0..(mat.rows - 1)) \X (0..(mat.columns - 1)) :
                   ij[1] # row /\ ij[2] # column}
      into(q) == {ij \in copied : result.columns * im(ij[1]) + jm(ij[2]) = q - 1}
  IN  Ok(Mat(result.rows, result.columns,
             [q \in 1..Len(result.data) |->
                IF into(q) = {} THEN result.data[q]
                ELSE LET ij == CHOOSE a \in into(q) :
                                  \A b \in into(q) :
                                     mat.columns * b[1] + b[2] <=
                                     mat.columns * a[1] + a[2]
                     IN  get_element(mat, ij[1], ij[2], Zero)]),
         UNION {{Acc(result, im(ij[1]), jm(ij[2])), Acc(mat, ij[1], ij[2])} :
                  ij \in copied})

\* matrix::minor_matrix
minor_matrix(mat, row, column) ==
  IF mat.rows = 1 \/ mat.columns = 1 THEN Throw("DegenerateMinor", {})
  ELSE IF bounds_check(mat, row, column) THEN Throw("OutOfRange", {})
  ELSE minor_copy(mat, row, column)

----------------------------------------------------------------------------
(* Gaussian elimination *)

\* upper_triangle_matrix, lines 272-276: row j += row non_zero_row
\* the rows j and non_zero_row exchanged, as in the textbook elimination,
\* instead of added
add_row_exchanges(result, j, non_zero_row, junk) ==
  [mat |-> Mat(result.rows, result.columns,
               [q \in 1..Len(result.data) |->
                  LET i == (q - 1) \div result.columns
                      k == (q - 1) % result.columns
                  IN  IF i = j THEN get_element(result, non_zero_row, k, junk)
                      ELSE IF i = non_zero_row THEN get_element(result, j, k, junk)
                      ELSE result.data[q]]),
   log |-> UNION {{Acc(result, j, i), Acc(result, non_zero_row, i)} :
                    i \in 0..(result.columns - 1)}]

\* the addition of upper_triangle_matrix with -= for +=
add_row_subtracts(result, j, non_zero_row, junk) ==
  [mat |-> Mat(result.rows, result.columns,
               [q \in 1..Len(result.data) |->
                  IF (q - 1) \div result.columns = j
                  THEN RSub(result.data[q],
                            get_element(result, non_zero_row,
                                        (q - 1) % result.columns, junk))
                  ELSE result.data[q]]),
   log |-> UNION {{Acc(result, j, i), Acc(result, non_zero_row, i)} :
                    i \in 0..(result.columns - 1)}]

add_row(result, j, non_zero_row, junk) ==
  [mat |-> Mat(result.rows, result.columns,
               [q \in 1..Len(result.data) |->
                  IF (q - 1) \div result.columns = j
                  THEN RAdd(result.data[q],
                            get_element(result, non_zero_row,
                                        (q - 1) % result.columns, junk))
                  ELSE result.data[q]]),
   log |-> UNION {{Acc(result, j, i), Acc(result, non_zero_row, i)} :
                    i \in 0..(result.columns - 1)}]

\* upper_triangle_matrix, lines 279-285: one row i below the pivot row j
eliminate_row(result, j, i, junk) ==
  IF IsZero(get_element(result, i, j, junk))
  THEN [mat |-> result, log |-> {Acc(result, i, j)}]
  ELSE LET multiplier == RDiv(get_element(result, i, j, junk),
                              get_element(result, j, j, junk))
       IN  [mat |-> Mat(result.rows, result.columns,
                        [q \in 1..Len(result.data) |->
                           IF (q - 1) \div result.columns = i
                           THEN RSub(result.data[q],
                                     RMul(get_element(result, j,
                                                      (q - 1) % result.columns, junk),
                                          multiplier))
                           ELSE result.data[q]]),
            log |-> {Acc(result, i, j), Acc(result, j, j)} \cup
                    UNION {{Acc(result, i, k), Acc(result, j, k)} :
                             k \in 0..(result.columns - 1)}]

\* upper_triangle_matrix, line 278: for (i = j + 1; i < rows_; ++i), from row i on
RECURSIVE eliminate_rows(_, _, _, _)
RECURSIVE eliminate_after(_, _, _, _)
eliminate_rows(result, j, i, junk) ==
  IF i < result.rows
  THEN eliminate_after(eliminate_row(result, j, i, junk), j, i, junk)
  ELSE [mat |-> result, log |-> {}]

\* the rows after row i, row i being done with outcome one
eliminate_after(one, j, i, junk) ==
  AddLog(eliminate_rows(one.mat, j, i + 1, junk), one.log)

\* upper_triangle_matrix, line 266: for (j = 0; j < columns_ - 1; ++j), from column j on
RECURSIVE triangle_columns(_, _, _)
RECURSIVE triangle_column(_, _, _, _)
RECURSIVE triangle_below(_, _, _)
RECURSIVE triangle_after(_, _, _)
triangle_columns(result, j, junk) ==
  IF j < result.columns - 1
  THEN triangle_column(result, j, find_not_zero_row(result, j, j, junk), junk)
  ELSE [mat |-> result, log |-> {}]

\* upper_triangle_matrix, lines 268-276: column j, found being what
\* find_not_zero_row(j, j) returned
triangle_column(result, j, found, junk) ==
  IF found.row >= result.rows
  THEN AddLog(triangle_columns(result, j + 1, junk), found.log)
  ELSE AddLog(triangle_below(IF found.row # j
                             THEN add_row(result, j, found.row, junk)
                             ELSE [mat |-> result, log |-> {}],
                             j, junk),
              found.log)

\* upper_triangle_matrix, lines 278-286: the rows below row j of column j
triangle_below(added, j, junk) ==
  AddLog(triangle_after(eliminate_rows(added.mat, j, j + 1, junk), j, junk), added.log)

\* upper_triangle_matrix, line 266: ++j
triangle_after(elim, j, junk) ==
  AddLog(triangle_columns(elim.mat, j + 1, junk), elim.log)

\* matrix::upper_triangle_matrix
upper_triangle_matrix(mat, junk) == AsMatrix(triangle_columns(mat, 0, junk))

----------------------------------------------------------------------------
(* Determinant, algebraic complements, inverse: class matrix *)

\* matrix::determinant, lines 298-300: result *= triangle(i, i), from row i on
RECURSIVE diag_product(_, _, _)
diag_product(triangle, i, result) ==
  IF i < triangle.rows
  THEN diag_product(triangle, i + 1,
                    RMul(result, get_element(triangle, i, i, Zero)))
  ELSE result

\* determinant with the product started at 0
determinant_from_zero(triangle) ==
  OkNum(diag_product(triangle.mat, 0, Zero),
        triangle.log \cup
        {Acc(triangle.mat, i, i) : i \in 0..(triangle.mat.rows - 1)})

\* matrix::determinant, lines 296-301, triangle being what
\* upper_triangle_matrix returned
determinant_of_triangle(triangle) ==
  OkNum(diag_product(triangle.mat, 0, One),
        triangle.log \cup
        {Acc(triangle.mat, i, i) : i \in 0..(triangle.mat.rows - 1)})

\* matrix::determinant
determinant(mat, junk) ==
  IF square_check(mat) THEN Throw("NotSquare", {})
  ELSE determinant_of_triangle(upper_triangle_matrix(mat, junk))

\* complements_matrix, line 311: det * ((i + j) % 2 ? -1 : 1)
signed(det, i, j) ==
  IF det.err # "none" THEN det
  ELSE OkNum(RMul(det.num, IF (i + j) % 2 # 0 THEN Rat(-1) ELSE One), det.log)

\* complements_matrix, lines 310-311, minor being what minor_matrix(i, j) returned
complement_of_minor(mat, i, j, minor, junk) ==
  IF minor.err # "none" THEN minor
  ELSE AddLog(signed(determinant(minor.mat, junk), i, j),
              minor.log \cup {Acc(mat, i, j)})

\* complements_matrix, lines 310-311: the element (i, j) of the result
complement(mat, i, j, junk) ==
  complement_of_minor(mat, i, j, minor_matrix(mat, i, j), junk)

\* complements_matrix, lines 307-315: the elements are computed in row-major
\* order, cells[q] being the outcome for the q-th; the first exception ends
\* the call
complements_of_cells(result, cells) ==
  IF \E q \in 1..Len(result.data) : cells[q].err # "none"
  THEN LET first == CHOOSE q \in 1..Len(result.data) :
                      /\ cells[q].err # "none"
                      /\ \A p \in 1..(q - 1) : cells[p].err = "none"
       IN  Throw(cells[first].err, UNION {cells[q].log : q \in 1..first})
  ELSE Ok(Mat(result.rows, result.columns,
              [q \in 1..Len(result.data) |-> cells[q].num]),
          UNION {cells[q].log : q \in 1..Len(result.data)})

\* matrix::complements_matrix
complements_matrix(mat, junk) ==
  IF square_check(mat) THEN Throw("NotSquare", {})
  ELSE complements_of_cells(matrix(mat.rows, mat.columns).mat,
                            [q \in 1..(mat.rows * mat.columns) |->
                               complement(mat, (q - 1) \div mat.columns,
                                          (q - 1) % mat.columns, junk)])

\* operator/(const matrix&, const_reference): a copy of m, then /=
divide(mat, value) == Ok(div_scalar(mat, value), {})

\* matrix::inverse, line 320: complements_matrix().transposed() / det
adjugate_over(comp, det) ==
  IF comp.err # "none" THEN comp
  ELSE AddLog(AddLog(divide(transposed(comp.mat).mat, det),
                     transposed(comp.mat).log),
              comp.log)

\* inverse without the test of the determinant
inverse_unchecked(mat, det, junk) ==
  IF det.err # "none" THEN det
  ELSE AddLog(adjugate_over(complements_matrix(mat, junk), det.num), det.log)

\* matrix::inverse, lines 319-324, det being what determinant() returned
inverse_of_det(mat, det, junk) ==
  IF det.err # "none" THEN det
  ELSE IF ~IsZero(det.num)
  THEN AddLog(adjugate_over(complements_matrix(mat, junk), det.num), det.log)
  ELSE Throw("SingularMatrix", det.log)

\* matrix::inverse
inverse(mat, junk) == inverse_of_det(mat, determinant(mat, junk), junk)

\* the unary operators of matrix with operator! returning inverse()
operator_unary_not_inverse(symbol, mat, junk) ==
  CASE symbol = "!" -> inverse(mat, junk)
    [] symbol = "*" -> complements_matrix(mat, junk)
    [] symbol = "~" -> inverse(mat, junk)
    [] symbol = "-" -> unary_minus(mat)
    [] symbol = "+" -> unary_plus(mat)

\* matrix::operator!, operator*, operator~, operator-, operator+
operator_unary(symbol, mat, junk) ==
  CASE symbol = "!" -> transposed(mat)
    [] symbol = "*" -> complements_matrix(mat, junk)
    [] symbol = "~" -> inverse(mat, junk)
    [] symbol = "-" -> unary_minus(mat)
    [] symbol = "+" -> unary_plus(mat)

----------------------------------------------------------------------------
(* The same operations of the template Matrix<T>, T = double *)

\* Matrix::Transpose: the loops of matrix::transposed
Transpose(mat) == transposed(mat)

\* Matrix::MinorMatrix: the checks and loops of matrix::minor_matrix
MinorMatrix(mat, row, column) == minor_matrix(mat, row, column)

\* Matrix::TriangleMatrix: the loops of matrix::upper_triangle_matrix
TriangleMatrix(mat, junk) == upper_triangle_matrix(mat, junk)

\* Matrix::Determinant, lines 688-691: result *= triangle(i, i) from row i on;
\* the loop ends once the product is zero
RECURSIVE DiagProduct(_, _, _)
DiagProduct(triangle, i, result) ==
  IF i < triangle.rows
  THEN IF IsZero(RMul(result, get_element(triangle, i, i, Zero)))
       THEN [num |-> RMul(result, get_element(triangle, i, i, Zero)),
             log |-> {Acc(triangle, i, i)}]
       ELSE AddLog(DiagProduct(triangle, i + 1,
                               RMul(result, get_element(triangle, i, i, Zero))),
                   {Acc(triangle, i, i)})
  ELSE [num |-> result, log |-> {}]

\* Matrix::Determinant, lines 686-692, triangle being what TriangleMatrix returned
DeterminantOfTriangle(triangle) ==
  AddLog(AsNumber(DiagProduct(triangle.mat, 0, One)), triangle.log)

\* Matrix::Determinant
Determinant(mat, junk) ==
  IF square_check(mat) THEN Throw("NotSquare", {})
  ELSE DeterminantOfTriangle(TriangleMatrix(mat, junk))

\* ComplementsMatrix, lines 705-706, minor being what MinorMatrix(i, j) returned
ComplementOfMinor(mat, i, j, minor, junk) ==
  IF minor.err # "none" THEN minor
  ELSE AddLog(signed(Determinant(minor.mat, junk), i, j),
              minor.log \cup {Acc(mat, i, j)})

\* ComplementsMatrix, lines 705-706: the element (i, j) of the result
Complement(mat, i, j, junk) ==
  ComplementOfMinor(mat, i, j, MinorMatrix(mat, i, j), junk)

\* Matrix::ComplementsMatrix
ComplementsMatrix(mat, junk) ==
  IF square_check(mat) THEN Throw("NotSquare", {})
  ELSE complements_of_cells(matrix(mat.rows, mat.columns).mat,
                            [q \in 1..(mat.rows * mat.columns) |->
                               Complement(mat, (q - 1) \div mat.columns,
                                          (q - 1) % mat.columns, junk)])

\* Matrix::Inverse, lines 716-720, det being what Determinant() returned
InverseOfDet(mat, det, junk) ==
  IF det.err # "none" THEN det
  ELSE IF IsZero(det.num) THEN Throw("SingularMatrix", det.log)
  ELSE AddLog(adjugate_over(ComplementsMatrix(mat, junk), det.num), det.log)

\* Matrix::Inverse
Inverse(mat, junk) == InverseOfDet(mat, Determinant(mat, junk), junk)

----------------------------------------------------------------------------
(* Output.  What a stream received is the sequence of the insertions made  *)
(* into it: <<c, Zero>> for the character c, <<"value", v>> for the        *)
(* element v, <<"endl", Zero>> for std::endl.                              *)

\* operator<< of matrix with the separator written after every element
operator_out_trailing(mat) ==
  Flatten([i \in 1..mat.rows |->
             (IF i > 1 THEN <<<<"endl", Zero>>>> ELSE <<>>)
             \o <<<<"[", Zero>>>>
             \o Flatten([j \in 1..mat.columns |->
                           <<<<"value", get_element(mat, i - 1, j - 1, Zero)>>,
                             <<" ", Zero>>>>])
             \o <<<<"]", Zero>>>>])

\* operator<<(std::ostream&, const matrix&): std::endl before every row but
\* the first, '[', the elements with ' ' before every one but the first, ']'
operator_out(mat) ==
  Flatten([i \in 1..mat.rows |->
             (IF i > 1 THEN <<<<"endl", Zero>>>> ELSE <<>>)
             \o <<<<"[", Zero>>>>
             \o Flatten([j \in 1..mat.columns |->
                           (IF j > 1 THEN <<<<" ", Zero>>>> ELSE <<>>)
                           \o <<<<"value", get_element(mat, i - 1, j - 1, Zero)>>>>])
             \o <<<<"]", Zero>>>>])

\* operator<<(std::ostream&, const Matrix&): '{', the elements with ' ' after
\* every one but the last, '}', std::endl after every row but the last
OperatorOut(mat) ==
  Flatten([i \in 1..mat.rows |->
             <<<<"{", Zero>>>>
             \o Flatten([j \in 1..mat.columns |->
                           <<<<"value", get_element(mat, i - 1, j - 1, Zero)>>>>
                           \o (IF j - 1 # mat.columns - 1 THEN <<<<" ", Zero>>>> ELSE <<>>)])
             \o <<<<"}", Zero>>>>
             \o (IF i - 1 # mat.rows - 1 THEN <<<<"endl", Zero>>>> ELSE <<>>)])

\* Matrix::operator!, operator-, operator+ (the class has no unary * or ~)
OperatorUnary(symbol, mat, junk) ==
  CASE symbol = "!" -> Inverse(mat, junk)
    [] symbol = "-" -> Ok(MulScalar(mat, Rat(-1)), {})
    [] symbol = "+" -> Ok(mat, {})

----------------------------------------------------------------------------
(* Inputs *)

\* the shapes of the input matrices
Shapes == {rc \in (1..MaxLen) \X (1..MaxLen) : rc[1] * rc[2] <= MaxLen}

\* the input matrices: every shape, every element drawn from Vals
Matrices ==
  UNION {{Mat(rc[1], rc[2], d) : d \in [1..(rc[1] * rc[2]) -> {Rat(v) : v \in Vals}]} :
           rc \in Shapes}

\* what a read past the end of data_ may yield
Junk == {Zero, One}

----------------------------------------------------------------------------
(* State: m is a matrix object of the caller, res the last call on it and  *)
(* what it returned or threw, kept until the caller drops it.  operand is  *)
(* a second matrix object of the caller, the argument of the binary        *)
(* operators, and before holds both objects as they were when the last     *)
(* call began; shares is the set of the caller's objects, "m" and          *)
(* "operand", whose storage the matrix returned by the last call shares.   *)
(* The specifications with a single object leave the three empty.          *)

Call(op, a, b, out) == [op |-> op, a |-> a, b |-> b, out |-> out]

Idle == Call("none", 0, 0, Throw("none", {}))

\* no second object and no call yet
NoPair == [m |-> NoMatrix, operand |-> NoMatrix]

Init == m \in Matrices /\ res = Idle /\ operand = NoMatrix /\ before = NoPair /\ shares = {}

\* the caller drops the temporary of the last call
Discard == res.op # "none" /\ res' = Idle /\ UNCHANGED <<m, operand, before, shares>>

\* explicit matrix(size, diag): a new object replaces m when no exception is thrown
ConstructDiag ==
  /\ res.op = "none"
  /\ \E size \in 0..MaxSize, diag \in Vals :
       LET out == matrix_diag(size, Rat(diag))
       IN  /\ res' = Call("matrix_diag", size, diag, out)
           /\ m' = IF out.err = "none" THEN out.mat ELSE m
           /\ UNCHANGED <<operand, before, shares>>

CallMinor ==
  /\ res.op = "none"
  /\ \E row \in 0..m.rows, column \in 0..m.columns :
       res' = Call("minor_matrix", row, column, minor_matrix(m, row, column))
  /\ UNCHANGED <<m, operand, before, shares>>

CallTransposed ==
  /\ res.op = "none"
  /\ res' = Call("transposed", 0, 0, transposed(m))
  /\ UNCHANGED <<m, operand, before, shares>>

CallUpperTriangle ==
  /\ res.op = "none"
  /\ \E junk \in Junk : res' = Call("upper_triangle_matrix", 0, 0, upper_triangle_matrix(m, junk))
  /\ UNCHANGED <<m, operand, before, shares>>

CallDeterminant ==
  /\ res.op = "none"
  /\ \E junk \in Junk : res' = Call("determinant", 0, 0, determinant(m, junk))
  /\ UNCHANGED <<m, operand, before, shares>>

CallComplements ==
  /\ res.op = "none"
  /\ \E junk \in Junk : res' = Call("complements_matrix", 0, 0, complements_matrix(m, junk))
  /\ UNCHANGED <<m, operand, before, shares>>

CallInverse ==
  /\ res.op = "none"
  /\ \E junk \in Junk : res' = Call("inverse", 0, 0, inverse(m, junk))
  /\ UNCHANGED <<m, operand, before, shares>>

CallTriangleMatrix ==
  /\ res.op = "none"
  /\ \E junk \in Junk : res' = Call("TriangleMatrix", 0, 0, TriangleMatrix(m, junk))
  /\ UNCHANGED <<m, operand, before, shares>>

CallDeterminantT ==
  /\ res.op = "none"
  /\ \E junk \in Junk : res' = Call("Determinant", 0, 0, Determinant(m, junk))
  /\ UNCHANGED <<m, operand, before, shares>>

CallComplementsT ==
  /\ res.op = "none"
  /\ \E junk \in Junk : res' = Call("ComplementsMatrix", 0, 0, ComplementsMatrix(m, junk))
  /\ UNCHANGED <<m, operand, before, shares>>

CallInverseT ==
  /\ res.op = "none"
  /\ \E junk \in Junk : res' = Call("Inverse", 0, 0, Inverse(m, junk))
  /\ UNCHANGED <<m, operand, before, shares>>

\* a unary operator of class matrix applied to m
CallOperator ==
  /\ res.op = "none"
  /\ \E symbol \in {"!", "*", "~", "-", "+"}, junk \in Junk :
       res' = Call("matrix operator", symbol, junk, operator_unary(symbol, m, junk))
  /\ UNCHANGED <<m, operand, before, shares>>

\* a unary operator of class Matrix<T> applied to m
CallOperatorT ==
  /\ res.op = "none"
  /\ \E symbol \in {"!", "-", "+"}, junk \in Junk :
       res' = Call("Matrix operator", symbol, junk, OperatorUnary(symbol, m, junk))
  /\ UNCHANGED <<m, operand, before, shares>>

Next ==
  \/ Discard
  \/ ConstructDiag
  \/ CallMinor
  \/ CallTransposed
  \/ CallUpperTriangle
  \/ CallDeterminant
  \/ CallComplements
  \/ CallInverse
  \/ CallTriangleMatrix
  \/ CallDeterminantT
  \/ CallComplementsT
  \/ CallInverseT
  \/ CallOperator
  \/ CallOperatorT

Spec == Init /\ [][Next]_vars

----------------------------------------------------------------------------
(* Life of one matrix object: constructions, in-place operators, resizes   *)
(* and value-returning operations in any order.  m stays within LifeLen    *)
(* elements, each an integer of magnitude at most LifeAbs; a call that     *)
(* would take m outside is left out.                                       *)

\* longest data_ vector of m
LifeLen == 4

\* largest magnitude of an element of m
LifeAbs == 1

LifeShapes == {rc \in (1..LifeLen) \X (1..LifeLen) : rc[1] * rc[2] <= LifeLen}

LifeMatrices ==
  UNION {{Mat(rc[1], rc[2], d) : d \in [1..(rc[1] * rc[2]) -> {Rat(v) : v \in Vals}]} :
           rc \in LifeShapes}

Bounded(mat) ==
  /\ Len(mat.data) <= LifeLen
  /\ \A q \in 1..Len(mat.data) : mat.data[q][2] = 1 /\ Abs(mat.data[q][1]) <= LifeAbs

\* the argument matrices of the binary operators: m itself, the matrix of
\* ones of every shape, the 2 x 2 identity
Others ==
  {m} \cup {Mat(rc[1], rc[2], [q \in 1..(rc[1] * rc[2]) |-> One]) : rc \in LifeShapes}
      \cup {matrix_diag(2, One).mat}

\* the scalar arguments
Scalars == {Rat(-1), Zero, Rat(2)}

\* the rows of an initializer list: up to two, each of up to two elements
ListRows == {<<>>} \cup {<<Rat(v)>> : v \in Vals} \cup {<<One, Rat(v)>> : v \in Vals}

Lists == {<<>>} \cup {<<r>> : r \in ListRows} \cup (ListRows \X ListRows)

\* the data_ of the vectors: a vector is never empty
Vectors == {<<One>>, <<Zero, One>>, <<One, Zero, One>>}

InitLife == m \in LifeMatrices /\ res = Idle /\ operand = NoMatrix /\ before = NoPair /\ shares = {}

\* a constructor or an in-place operation ran with outcome out: when it
\* returns, the object is out.mat; when it throws, the object the caller holds
\* is the one it held before
Becomes(op, a, b, out) ==
  /\ out.err = "none" => Bounded(out.mat)
  /\ m' = IF out.err = "none" THEN out.mat ELSE m
  /\ res' = Call(op, a, b, [out EXCEPT !.kind = "nothing", !.mat = NoMatrix])
  /\ UNCHANGED <<operand, before, shares>>

\* a value-returning operation ran with outcome out
Returns(op, a, b, out) ==
  /\ res' = Call(op, a, b, out)
  /\ UNCHANGED <<m, operand, before, shares>>

Construct ==
  /\ res.op = "none"
  /\ \E rows \in 0..LifeLen, columns \in 0..LifeLen :
       Becomes("matrix", rows, columns, matrix(rows, columns))

ConstructDiagLife ==
  /\ res.op = "none"
  /\ \E size \in 0..LifeLen, diag \in Vals :
       Becomes("matrix_diag", size, diag, matrix_diag(size, Rat(diag)))

ConstructList ==
  /\ res.op = "none"
  /\ \E items \in Lists : Becomes("matrix_list", Len(items), items, matrix_list(items))

ConstructVector ==
  /\ res.op = "none"
  /\ \E v \in Vectors, is_column \in BOOLEAN :
       Becomes("matrix_vector", v, is_column, matrix_vector(v, is_column))

AddAssign ==
  /\ res.op = "none"
  /\ \E other \in Others : Becomes("+=", 0, 0, add_assign(m, other))

SubAssign ==
  /\ res.op = "none"
  /\ \E other \in Others : Becomes("-=", 0, 0, sub_assign(m, other))

MulAssign ==
  /\ res.op = "none"
  /\ \E other \in Others : Becomes("*=", 0, 0, mul_assign(m, other))

MulScalarAssign ==
  /\ res.op = "none"
  /\ \E value \in Scalars :
       Becomes("*= value", value[1], 0, Ok(mul_scalar(m, value), {}))

DivScalarAssign ==
  /\ res.op = "none"
  /\ \E value \in Scalars :
       Becomes("/= value", value[1], 0, Ok(div_scalar(m, value), {}))

SetRows ==
  /\ res.op = "none"
  /\ \E rows \in 0..LifeLen : Becomes("set_rows", rows, 0, set_rows(m, rows))

SetColumns ==
  /\ res.op = "none"
  /\ \E columns \in 0..LifeLen :
       Becomes("set_columns", columns, 0, set_columns(m, columns))

\* m = <the matrix the last call returned>
Assign ==
  /\ res.out.kind = "matrix"
  /\ Bounded(res.out.mat)
  /\ m' = res.out.mat
  /\ res' = Idle
  /\ UNCHANGED <<operand, before, shares>>

Plus ==
  /\ res.op = "none"
  /\ \E other \in Others : Returns("+", 0, 0, plus(m, other))

Minus ==
  /\ res.op = "none"
  /\ \E other \in Others : Returns("-", 0, 0, minus(m, other))

Times ==
  /\ res.op = "none"
  /\ \E other \in Others : Returns("*", 0, 0, times(m, other))

TimesScalar ==
  /\ res.op = "none"
  /\ \E value \in Scalars :
       Returns("* value", value[1], 0, Ok(mul_scalar(m, value), {}))

DivideScalar ==
  /\ res.op = "none"
  /\ \E value \in Scalars : Returns("/ value", value[1], 0, divide(m, value))

UnaryMinus ==
  /\ res.op = "none"
  /\ Returns("unary -", 0, 0, unary_minus(m))

UnaryPlus ==
  /\ res.op = "none"
  /\ Returns("unary +", 0, 0, unary_plus(m))

NextLife ==
  \/ Discard
  \/ Assign
  \/ Construct
  \/ ConstructDiagLife
  \/ ConstructList
  \/ ConstructVector
  \/ AddAssign
  \/ SubAssign
  \/ MulAssign
  \/ MulScalarAssign
  \/ DivScalarAssign
  \/ SetRows
  \/ SetColumns
  \/ Plus
  \/ Minus
  \/ Times
  \/ TimesScalar
  \/ DivideScalar
  \/ UnaryMinus
  \/ UnaryPlus
  \/ CallMinor
  \/ CallTransposed
  \/ CallUpperTriangle
  \/ CallDeterminant
  \/ CallComplements
  \/ CallInverse

SpecLife == InitLife /\ [][NextLife]_vars

----------------------------------------------------------------------------
(* Two matrix objects and one call: the caller holds m and operand, built  *)
(* from initializer lists, and calls one operation of m, with operand as   *)
(* the argument of the binary ones.  before keeps both objects as they     *)
(* were when the call began.                                               *)

\* longest data_ vector of m and of operand
PairLen == 4

\* element values of m and of operand
PairVals == {1, 2}

PairShapes == {rc \in (1..PairLen) \X (1..PairLen) : rc[1] * rc[2] <= PairLen}

\* the matrices of the scenarios of the documentation: {{1,2,3},{4,5,6}},
\* {{7,8},{9,10},{11,12}} and {{1,2},{3,4}}
ScenarioMatrices ==
  {Mat(2, 3, <<Rat(1), Rat(2), Rat(3), Rat(4), Rat(5), Rat(6)>>),
   Mat(3, 2, <<Rat(7), Rat(8), Rat(9), Rat(10), Rat(11), Rat(12)>>),
   Mat(2, 2, <<Rat(1), Rat(2), Rat(3), Rat(4)>>)}

PairMatrices ==
  ScenarioMatrices \cup
  UNION {{Mat(rc[1], rc[2], d) : d \in [1..(rc[1] * rc[2]) -> {Rat(v) : v \in PairVals}]} :
           rc \in PairShapes}

InitPair ==
  /\ m \in PairMatrices
  /\ operand \in PairMatrices
  /\ res = Idle
  /\ before = NoPair
  /\ shares = {}

\* the caller's two objects after a call, what the call returned or threw, and
\* the objects whose storage the matrix returned shares
Effect(self, arg, out, shared) ==
  [self |-> self, arg |-> arg, out |-> out, shared |-> shared]

\* in_place with the receiver zeroed before the validation
in_place_zeroed_first(mat, oth, out) ==
  Effect(IF out.err = "none" THEN out.mat ELSE matrix(mat.rows, mat.columns).mat, oth,
         [out EXCEPT !.kind = "nothing", !.mat = NoMatrix], {})

\* a member that changes its receiver: out is what it computes from the
\* receiver mat and the argument oth.  Its validation is its first statement,
\* so an exception leaves before anything is written and the receiver is as it
\* was; otherwise the receiver holds the matrix computed.  The argument is a
\* reference to const.  No matrix of its own is returned: set_rows and
\* set_columns return nothing, the operators a reference to the receiver.
in_place(mat, oth, out) ==
  Effect(IF out.err = "none" THEN out.mat ELSE mat, oth,
         [out EXCEPT !.kind = "nothing", !.mat = NoMatrix], {})

\* by_value returning the receiver itself instead of a copy
by_value_aliased(mat, oth, out) == Effect(mat, oth, out, {"m"})

\* an operation that returns its result by value: it works on a local matrix
\* (matrix result(l), or a matrix constructed in the body) whose data_ is a
\* std::vector of its own, and returns it as a matrix, not as a reference;
\* the receiver and the argument are const
by_value(mat, oth, out) == Effect(mat, oth, out, {})

\* the call op ran with effect eff
PairStep(op, a, b, eff) ==
  /\ m' = eff.self
  /\ operand' = eff.arg
  /\ res' = Call(op, a, b, eff.out)
  /\ before' = [m |-> m, operand |-> operand]
  /\ shares' = eff.shared

\* m *= operand
PairMulAssign ==
  /\ res.op = "none"
  /\ PairStep("*=", 0, 0, in_place(m, operand, mul_assign(m, operand)))

\* m * operand
PairTimes ==
  /\ res.op = "none"
  /\ PairStep("*", 0, 0, by_value(m, operand, times(m, operand)))

\* m += operand
PairAddAssign ==
  /\ res.op = "none"
  /\ PairStep("+=", 0, 0, in_place(m, operand, add_assign(m, operand)))

\* m -= operand
PairSubAssign ==
  /\ res.op = "none"
  /\ PairStep("-=", 0, 0, in_place(m, operand, sub_assign(m, operand)))

\* m + operand
PairPlus ==
  /\ res.op = "none"
  /\ PairStep("+", 0, 0, by_value(m, operand, plus(m, operand)))

\* m - operand
PairMinus ==
  /\ res.op = "none"
  /\ PairStep("-", 0, 0, by_value(m, operand, minus(m, operand)))

\* m == operand, class matrix
PairEqual ==
  /\ res.op = "none"
  /\ PairStep("==", 0, 0, by_value(m, operand, OkBool(equal(m, operand))))

\* m != operand, class matrix
PairNotEqual ==
  /\ res.op = "none"
  /\ PairStep("!=", 0, 0, by_value(m, operand, OkBool(not_equal(m, operand))))

\* m == operand, class Matrix<T>
PairEqualT ==
  /\ res.op = "none"
  /\ PairStep("Matrix ==", 0, 0, by_value(m, operand, OkBool(Equal(m, operand))))

\* m != operand, class Matrix<T>
PairNotEqualT ==
  /\ res.op = "none"
  /\ PairStep("Matrix !=", 0, 0, by_value(m, operand, OkBool(NotEqual(m, operand))))

\* the nonzero scalar arguments
PairScalars == {Rat(-1), Rat(2)}

\* m /= value, class matrix
PairDivAssign ==
  /\ res.op = "none"
  /\ \E value \in PairScalars :
       PairStep("/= value", value[1], 0, in_place(m, operand, Ok(div_scalar(m, value), {})))

\* m / value, class matrix
PairDivide ==
  /\ res.op = "none"
  /\ \E value \in PairScalars :
       PairStep("/ value", value[1], 0, by_value(m, operand, divide(m, value)))

\* m /= value, class Matrix<int>
PairDivAssignInt ==
  /\ res.op = "none"
  /\ \E value \in PairScalars :
       PairStep("Matrix<int> /= value", value[1], 0,
                in_place(m, operand, Ok(DivScalarInt(m, value), {})))

\* m / value, class Matrix<int>
PairDivideInt ==
  /\ res.op = "none"
  /\ \E value \in PairScalars :
       PairStep("Matrix<int> / value", value[1], 0,
                by_value(m, operand, DivideInt(m, value)))

\* m.transposed(), class matrix
PairTransposed ==
  /\ res.op = "none"
  /\ PairStep("transposed", 0, 0, by_value(m, operand, transposed(m)))

\* m.Transpose(), class Matrix<T>
PairTranspose ==
  /\ res.op = "none"
  /\ PairStep("Transpose", 0, 0, by_value(m, operand, Transpose(m)))

\* (m + m) - m == m, class matrix: no operator throws, the shapes being equal
PairAddRoundTrip ==
  /\ res.op = "none"
  /\ PairStep("(m + m) - m == m", 0, 0,
              by_value(m, operand, OkBool(equal(minus(plus(m, m).mat, m).mat, m))))

\* m.transposed().transposed() == m, class matrix
PairTransposeRoundTrip ==
  /\ res.op = "none"
  /\ PairStep("m.transposed().transposed() == m", 0, 0,
              by_value(m, operand, OkBool(equal(transposed(transposed(m).mat).mat, m))))

\* m.set_rows(rows)
PairSetRows ==
  /\ res.op = "none"
  /\ \E rows \in 0..PairLen :
       PairStep("set_rows", rows, 0, in_place(m, operand, set_rows(m, rows)))

\* m.set_columns(columns)
PairSetColumns ==
  /\ res.op = "none"
  /\ \E columns \in 0..PairLen :
       PairStep("set_columns", columns, 0, in_place(m, operand, set_columns(m, columns)))

\* m * value
PairTimesScalar ==
  /\ res.op = "none"
  /\ \E value \in PairScalars :
       PairStep("* value", value[1], 0, by_value(m, operand, Ok(mul_scalar(m, value), {})))

\* -m
PairUnaryMinus ==
  /\ res.op = "none"
  /\ PairStep("unary -", 0, 0, by_value(m, operand, unary_minus(m)))

\* +m
PairUnaryPlus ==
  /\ res.op = "none"
  /\ PairStep("unary +", 0, 0, by_value(m, operand, unary_plus(m)))

\* m.minor_matrix(row, column)
PairMinor ==
  /\ res.op = "none"
  /\ \E row \in 0..1, column \in 0..1 :
       PairStep("minor_matrix", row, column, by_value(m, operand, minor_matrix(m, row, column)))

\* m.upper_triangle_matrix()
PairUpperTriangle ==
  /\ res.op = "none"
  /\ \E junk \in Junk :
       PairStep("upper_triangle_matrix", 0, 0,
                by_value(m, operand, upper_triangle_matrix(m, junk)))

\* m.determinant()
PairDeterminant ==
  /\ res.op = "none"
  /\ \E junk \in Junk :
       PairStep("determinant", 0, 0, by_value(m, operand, determinant(m, junk)))

\* m.complements_matrix()
PairComplements ==
  /\ res.op = "none"
  /\ \E junk \in Junk :
       PairStep("complements_matrix", 0, 0,
                by_value(m, operand, complements_matrix(m, junk)))

\* m.inverse()
PairInverse ==
  /\ res.op = "none"
  /\ \E junk \in Junk :
       PairStep("inverse", 0, 0, by_value(m, operand, inverse(m, junk)))

\* the value the caller writes into a returned matrix
Written == Rat(9)

\* r(0, 0) = Written, r being the matrix the last call returned: the element
\* changes in r and in every object that shares the storage of r.  The call
\* recorded is the write, with the operation that returned r as its a.
PairWriteResult ==
  /\ res.op # "write"
  /\ res.out.kind = "matrix"
  /\ res' = Call("write", res.op, 0, [res.out EXCEPT !.mat.data[1] = Written])
  /\ m' = IF "m" \in shares THEN [m EXCEPT !.data[1] = Written] ELSE m
  /\ operand' = IF "operand" \in shares
                THEN [operand EXCEPT !.data[1] = Written] ELSE operand
  /\ UNCHANGED <<before, shares>>

\* m(row, column), read
PairGet ==
  /\ res.op = "none"
  /\ \E row \in 0..m.rows, column \in 0..m.columns :
       PairStep("get", row, column, by_value(m, operand, at(m, row, column)))

\* m(row, column) = Written
PairSet ==
  /\ res.op = "none"
  /\ \E row \in 0..m.rows, column \in 0..m.columns :
       PairStep("set", row, column,
                in_place(m, operand, at_assign(m, row, column, Written)))

\* out << m for an empty stream out and m of class matrix: a is what out
\* holds after the call
PairPrint ==
  /\ res.op = "none"
  /\ PairStep("operator<<", operator_out(m), 0, by_value(m, operand, Throw("none", {})))

\* out << m for an empty stream out and m of class Matrix<T>
PairPrintT ==
  /\ res.op = "none"
  /\ PairStep("Matrix operator<<", OperatorOut(m), 0,
              by_value(m, operand, Throw("none", {})))

\* m += m
PairAddAssignSelf ==
  /\ res.op = "none"
  /\ PairStep("m += m", 0, 0, in_place(m, operand, assign_self("+=", m)))

\* m -= m
PairSubAssignSelf ==
  /\ res.op = "none"
  /\ PairStep("m -= m", 0, 0, in_place(m, operand, assign_self("-=", m)))

\* m *= m
PairMulAssignSelf ==
  /\ res.op = "none"
  /\ PairStep("m *= m", 0, 0, in_place(m, operand, assign_self("*=", m)))

NextPair ==
  \/ PairMulAssign
  \/ PairTimes
  \/ PairAddAssign
  \/ PairSubAssign
  \/ PairPlus
  \/ PairMinus
  \/ PairEqual
  \/ PairNotEqual
  \/ PairEqualT
  \/ PairNotEqualT
  \/ PairDivAssign
  \/ PairDivide
  \/ PairDivAssignInt
  \/ PairDivideInt
  \/ PairTransposed
  \/ PairTranspose
  \/ PairAddRoundTrip
  \/ PairTransposeRoundTrip
  \/ PairSetRows
  \/ PairSetColumns
  \/ PairTimesScalar
  \/ PairUnaryMinus
  \/ PairUnaryPlus
  \/ PairMinor
  \/ PairUpperTriangle
  \/ PairDeterminant
  \/ PairComplements
  \/ PairInverse
  \/ PairWriteResult
  \/ PairGet
  \/ PairSet
  \/ PairPrint
  \/ PairPrintT
  \/ PairAddAssignSelf
  \/ PairSubAssignSelf
  \/ PairMulAssignSelf

SpecPair == InitPair /\ [][NextPair]_vars

----------------------------------------------------------------------------
(* Two vectors: m and operand are the data_ of two vector objects of the   *)
(* caller, and one operator is applied to them.  The log of a call is the  *)
(* set of the indices of operand it read.                                  *)

\* longest data_ of a vector
VecLen == 3

VecVals == {0, 1, 2}

\* a vector is never empty
VecData == UNION {[1..n -> {Rat(v) : v \in VecVals}] : n \in 1..VecLen}

InitVector ==
  /\ m \in VecData /\ operand \in VecData
  /\ res = Idle /\ before = NoPair /\ shares = {}

\* vector::extend(new_size, value): data_.resize when new_size > size()
extend(data, new_size, value) ==
  IF new_size > Len(data)
  THEN [q \in 1..new_size |-> IF q <= Len(data) THEN data[q] ELSE value]
  ELSE data

\* Vector::Extend(new_size, value)
Extend(data, new_size, value) ==
  IF new_size > Len(data)
  THEN [q \in 1..new_size |-> IF q <= Len(data) THEN data[q] ELSE value]
  ELSE data

\* vector::operator+= and operator-=: extend(other.size()), then
\* std::transform(begin(), end(), other.begin(), begin(), plus or minus).
\* The second range is read at every index of the first, to the end of
\* *this: past the end of other that is undefined behaviour and the read
\* yields junk.
vector_assign(sign, data, other, junk) ==
  LET extended == extend(data, Len(other), Zero)
      second(q) == IF q <= Len(other) THEN other[q] ELSE junk
  IN  [data |-> [q \in 1..Len(extended) |->
                   IF sign = "+=" THEN RAdd(extended[q], second(q))
                   ELSE RSub(extended[q], second(q))],
       log |-> {q - 1 : q \in 1..Len(extended)}]

\* Vector::operator+= and operator-=: Extend(other.Size()), then one step
\* of the iterator of *this for every element of other
VectorAssign(sign, data, other) ==
  LET extended == Extend(data, Len(other), Zero)
  IN  [data |-> [q \in 1..Len(extended) |->
                   IF q > Len(other) THEN extended[q]
                   ELSE IF sign = "+=" THEN RAdd(extended[q], other[q])
                   ELSE RSub(extended[q], other[q])],
       log |-> {q - 1 : q \in 1..Len(other)}]

\* the call op changed the receiver as r says
VecStep(op, r) ==
  PairStep(op, 0, 0, Effect(r.data, operand, Throw("none", r.log), {}))

\* m += operand, class vector
VecAddAssign ==
  /\ res.op = "none"
  /\ \E junk \in Junk : VecStep("vector +=", vector_assign("+=", m, operand, junk))

\* m -= operand, class vector
VecSubAssign ==
  /\ res.op = "none"
  /\ \E junk \in Junk : VecStep("vector -=", vector_assign("-=", m, operand, junk))

\* m += operand, class Vector<T>
VecAddAssignT ==
  /\ res.op = "none"
  /\ VecStep("Vector +=", VectorAssign("+=", m, operand))

\* m -= operand, class Vector<T>
VecSubAssignT ==
  /\ res.op = "none"
  /\ VecStep("Vector -=", VectorAssign("-=", m, operand))

NextVector ==
  \/ VecAddAssign
  \/ VecSubAssign
  \/ VecAddAssignT
  \/ VecSubAssignT

SpecVector == InitVector /\ [][NextVector]_vars

----------------------------------------------------------------------------
(* Two complex numbers of Complex<int>: m and operand are the fields a_    *)
(* and i_ of two objects of the caller, and one operator is applied to     *)
(* them.  The parts stay far below the width of int.                       *)

\* largest magnitude of a part of an operand
CplxAbs == 2

CplxValues == [a : (-CplxAbs)..CplxAbs, i : (-CplxAbs)..CplxAbs]

InitComplex ==
  /\ m \in CplxValues /\ operand \in CplxValues
  /\ res = Idle /\ before = NoPair /\ shares = {}

\* Complex::operator==
ComplexEqual(x, y) == x.a = y.a /\ x.i = y.i

\* Complex::operator*=: a_ is assigned first, and the expression assigned to
\* i_ reads a_ after that
ComplexMulAssign(x, y) ==
  LET a_ == x.a * y.a - x.i * y.i
      i_ == a_ * y.i + x.i * y.a
  IN  [a |-> a_, i |-> i_]

\* Complex::operator*: Complex result(*this); result *= other
ComplexTimes(x, y) == ComplexMulAssign(x, y)

\* m *= operand
CplxMulAssign ==
  /\ res.op = "none"
  /\ PairStep("Complex *=", 0, 0,
              Effect(ComplexMulAssign(m, operand), operand, Throw("none", {}), {}))

\* m * operand: a is the number returned
CplxTimes ==
  /\ res.op = "none"
  /\ PairStep("Complex *", ComplexTimes(m, operand), 0,
              Effect(m, operand, Throw("none", {}), {}))

\* m * operand == operand * m
CplxCommute ==
  /\ res.op = "none"
  /\ PairStep("Complex x * y == y * x", ComplexTimes(m, operand), ComplexTimes(operand, m),
              Effect(m, operand,
                     OkBool(ComplexEqual(ComplexTimes(m, operand), ComplexTimes(operand, m))),
                     {}))

NextComplex ==
  \/ CplxMulAssign
  \/ CplxTimes
  \/ CplxCommute

SpecComplex == InitComplex /\ [][NextComplex]_vars

----------------------------------------------------------------------------
(* Vocabulary of the properties *)

\* element (i, j) of mat: the element row * columns + column of its data
Elem(mat, i, j) == mat.data[i * mat.columns + j + 1]

IsSquare(mat) == mat.rows = mat.columns

Cells(mat) == (0..(mat.rows - 1)) \X (0..(mat.columns - 1))

\* the determinant the called class computes for mat
DetOf(op, mat, junk) ==
  IF op \in {"Determinant", "ComplementsMatrix", "Inverse"}
  THEN Determinant(mat, junk)
  ELSE determinant(mat, junk)

\* the minor the called class computes for mat
MinorOf(op, mat, i, j) ==
  IF op \in {"Determinant", "ComplementsMatrix", "Inverse"}
  THEN MinorMatrix(mat, i, j)
  ELSE minor_matrix(mat, i, j)

\* the invariants of a matrix object
WellFormed(mat) ==
  /\ mat.rows >= 1
  /\ mat.columns >= 1
  /\ Len(mat.data) = mat.rows * mat.columns

InverseOps == {"inverse", "Inverse"}

ComplementsOps == {"complements_matrix", "ComplementsMatrix"}

DeterminantOps == {"determinant", "Determinant"}

TriangleOps == {"upper_triangle_matrix", "TriangleMatrix"}

----------------------------------------------------------------------------
(* Properties *)

\* C1: after any sequence of successful or failed constructions and
\* operations, every existing matrix (the object m and the matrix a
\* value-returning operation returned) has rows >= 1, columns >= 1 and
\* rows * columns elements.
C1_ShapeInvariant ==
  /\ WellFormed(m)
  /\ res.out.kind = "matrix" => WellFormed(res.out.mat)

C1_Witness ==
  /\ res.op = "set_rows"
  /\ res.a = 0
  /\ res.out.err = "InvalidDimension"
  /\ m.rows = 1 /\ m.columns = 3
  /\ m.data = <<Rat(-1), Zero, Zero>>

\* C2 (as claimed): for every square matrix m of any size n >= 1, 1 x 1
\* included, whose determinant is nonzero, the inverse is returned and m times
\* the inverse equals the n x n identity matrix.
C2_InverseOfEveryInvertible ==
  (/\ res.op \in InverseOps
   /\ IsSquare(m)
   /\ \A junk \in Junk : ~IsZero(DetOf(res.op, m, junk).num))
  => /\ res.out.err = "none"
     /\ res.out.kind = "matrix"
     /\ equal(times(m, res.out.mat).mat, matrix_diag(m.rows, One).mat)

\* C3: the inverse of a square matrix of any size whose determinant is exactly
\* zero fails with SingularMatrix, with no other error kind, and returns no
\* matrix.
C3_SingularInverseFails ==
  (/\ res.op \in InverseOps
   /\ IsSquare(m)
   /\ \E junk \in Junk : IsZero(DetOf(res.op, m, junk).num))
  => /\ res.out.err = "SingularMatrix"
     /\ res.out.kind = "nothing"

C3_Witness ==
  /\ res.op = "inverse"
  /\ m.rows = 3 /\ m.columns = 3
  /\ \E q \in 1..9 : m.data[q] # Zero
  /\ res.out.err = "SingularMatrix"

\* C4: determinant, complements matrix and inverse of a matrix with
\* rows # columns fail with NotSquare before any element is accessed; on a
\* square matrix none of them fails with NotSquare.
C4_NotSquareExactlyOnNonSquare ==
  res.op \in DeterminantOps \cup ComplementsOps \cup InverseOps
  => /\ ~IsSquare(m) => res.out.err = "NotSquare" /\ res.out.log = {}
     /\ IsSquare(m) => res.out.err # "NotSquare"

C4_Witness ==
  /\ res.op = "complements_matrix"
  /\ m.rows = 2 /\ m.columns = 3
  /\ res.out.err = "NotSquare"

\* C5: the determinant of the n x n matrix the diagonal constructor builds
\* with diagonal value 1 is exactly 1, for every n >= 1.
C5_DeterminantOfIdentity ==
  (/\ res.op \in DeterminantOps
   /\ \E n \in 1..MaxSize : m = matrix_diag(n, One).mat)
  => /\ res.out.err = "none"
     /\ res.out.num = One

C5_Witness ==
  /\ res.op = "determinant"
  /\ m = matrix_diag(MaxSize, One).mat
  /\ res.out.num = One

\* C6 (as claimed): for every square matrix m the complements matrix is
\* returned, has the shape of m, and its element (i, j) is the determinant of
\* the minor (i, j) times +1 when i + j is even and -1 when i + j is odd.
C6_ComplementsOfEverySquare ==
  (res.op \in ComplementsOps /\ IsSquare(m))
  => /\ res.out.err = "none"
     /\ res.out.mat.rows = m.rows
     /\ res.out.mat.columns = m.columns
     /\ \A ij \in Cells(m) : \A junk \in Junk :
          Elem(res.out.mat, ij[1], ij[2]) =
            RMul(DetOf(res.op, MinorOf(res.op, m, ij[1], ij[2]).mat, junk).num,
                 IF (ij[1] + ij[2]) % 2 = 0 THEN One ELSE Rat(-1))

\* C7 (as claimed): for every matrix m of any shape, every element (i, j)
\* with i > j of the upper triangle matrix of m is zero.
C7_ZeroBelowDiagonal ==
  res.op \in TriangleOps
  => \A ij \in Cells(res.out.mat) :
       ij[1] > ij[2] => Elem(res.out.mat, ij[1], ij[2]) = Zero

\* C8 (as claimed): during upper triangle, determinant, complements matrix
\* and inverse every unchecked element access uses a row < rows and a
\* column < columns of the accessed matrix.
C8_AccessesInBounds ==
  res.op \in TriangleOps \cup DeterminantOps \cup ComplementsOps \cup InverseOps
  => \A a \in res.out.log : a[3] < a[1] /\ a[4] < a[2]

\* C9: for a matrix with rows >= 2 and columns >= 2 and row < rows,
\* column < columns, the minor is a (rows-1) x (columns-1) matrix whose element
\* (i, j) is m(i + [i >= row], j + [j >= column]).
C9_MinorDeletesRowAndColumn ==
  (/\ res.op = "minor_matrix"
   /\ m.rows >= 2 /\ m.columns >= 2
   /\ res.a < m.rows /\ res.b < m.columns)
  => /\ res.out.err = "none"
     /\ res.out.kind = "matrix"
     /\ res.out.mat.rows = m.rows - 1
     /\ res.out.mat.columns = m.columns - 1
     /\ Len(res.out.mat.data) = (m.rows - 1) * (m.columns - 1)
     /\ \A ij \in Cells(res.out.mat) :
          Elem(res.out.mat, ij[1], ij[2]) =
            Elem(m, ij[1] + (IF ij[1] >= res.a THEN 1 ELSE 0),
                    ij[2] + (IF ij[2] >= res.b THEN 1 ELSE 0))

C9_Witness ==
  /\ res.op = "minor_matrix"
  /\ m.rows = 3 /\ m.columns = 3
  /\ res.a = 1 /\ res.b = 1
  /\ m.data = <<One, Zero, One, Zero, Zero, Zero, Zero, Zero, One>>
  /\ res.out.mat.data = <<One, One, Zero, One>>

\* C10: on a matrix with rows = 1 or columns = 1 the minor fails with
\* DegenerateMinor for every pair of arguments, out-of-range ones included; on
\* a matrix with both dimensions >= 2 it fails with OutOfRange exactly when
\* row >= rows or column >= columns.
C10_MinorErrors ==
  res.op = "minor_matrix"
  => /\ (m.rows = 1 \/ m.columns = 1) => res.out.err = "DegenerateMinor"
     /\ (m.rows >= 2 /\ m.columns >= 2) =>
          (res.out.err = "OutOfRange" <=> (res.a >= m.rows \/ res.b >= m.columns))
     /\ (m.rows >= 2 /\ m.columns >= 2) => res.out.err \in {"OutOfRange", "none"}

C10_Witness ==
  /\ res.op = "minor_matrix"
  /\ m.rows = 1 /\ m.columns >= 2
  /\ res.a >= m.rows
  /\ res.out.err = "DegenerateMinor"

----------------------------------------------------------------------------
(* Properties of the operations on two matrices *)

\* the matrix an operation produced: the receiver after an in-place
\* operation, the matrix returned by a value-returning one
Produced == IF res.out.kind = "matrix" THEN res.out.mat ELSE m

\* the sum over k in [0, n) of a(i, k) * b(k, j)
RECURSIVE DotSum(_, _, _, _, _)
DotSum(a, b, i, j, n) ==
  IF n = 0 THEN Zero
  ELSE RAdd(DotSum(a, b, i, j, n - 1), RMul(Elem(a, i, n - 1), Elem(b, n - 1, j)))

\* C11: a * b and a *= b fail with InnerSizeMismatch exactly when
\* a.columns # b.rows; otherwise the result has a.rows rows and b.columns
\* columns and its element (i, j) is the sum over k of a(i, k) * b(k, j).
C11_Multiplication ==
  res.op \in {"*=", "*"}
  => /\ res.out.err = "InnerSizeMismatch" <=> before.m.columns # before.operand.rows
     /\ before.m.columns = before.operand.rows
        => /\ res.out.err = "none"
           /\ Produced.rows = before.m.rows
           /\ Produced.columns = before.operand.columns
           /\ Len(Produced.data) = before.m.rows * before.operand.columns
           /\ \A ij \in Cells(Produced) :
                Elem(Produced, ij[1], ij[2]) =
                  DotSum(before.m, before.operand, ij[1], ij[2], before.m.columns)

C11_Witness ==
  /\ res.op = "*"
  /\ before.m = Mat(2, 3, <<Rat(1), Rat(2), Rat(3), Rat(4), Rat(5), Rat(6)>>)
  /\ before.operand = Mat(3, 2, <<Rat(7), Rat(8), Rat(9), Rat(10), Rat(11), Rat(12)>>)
  /\ res.out.mat = Mat(2, 2, <<Rat(58), Rat(64), Rat(139), Rat(154)>>)

SameShape(a, b) == a.rows = b.rows /\ a.columns = b.columns

\* C12: a + b, a - b, a += b and a -= b fail with SizeMismatch exactly when
\* the shapes of a and b differ; otherwise the result has the shape of a and
\* its element (i, j) is a(i, j) + b(i, j), respectively a(i, j) - b(i, j).
C12_AdditionAndSubtraction ==
  res.op \in {"+=", "+", "-=", "-"}
  => /\ res.out.err = "SizeMismatch" <=> ~SameShape(before.m, before.operand)
     /\ SameShape(before.m, before.operand)
        => /\ res.out.err = "none"
           /\ SameShape(Produced, before.m)
           /\ Len(Produced.data) = before.m.rows * before.m.columns
           /\ \A ij \in Cells(Produced) :
                Elem(Produced, ij[1], ij[2]) =
                  IF res.op \in {"+=", "+"}
                  THEN RAdd(Elem(before.m, ij[1], ij[2]), Elem(before.operand, ij[1], ij[2]))
                  ELSE RSub(Elem(before.m, ij[1], ij[2]), Elem(before.operand, ij[1], ij[2]))

C12_Witness ==
  /\ res.op = "-="
  /\ before.m = Mat(2, 2, <<Rat(1), Rat(2), Rat(3), Rat(4)>>)
  /\ before.operand = Mat(2, 2, <<Rat(2), Rat(2), Rat(1), Rat(1)>>)
  /\ m = Mat(2, 2, <<Rat(-1), Rat(0), Rat(2), Rat(3)>>)

\* equal rows, equal columns and a(i, j) = b(i, j) for every (i, j)
SameMatrix(a, b) ==
  /\ SameShape(a, b)
  /\ \A ij \in Cells(a) : Elem(a, ij[1], ij[2]) = Elem(b, ij[1], ij[2])

EqualOps == {"==", "Matrix =="}

NotEqualOps == {"!=", "Matrix !="}

\* C13 (as claimed): a == b is true exactly when a and b have equal rows,
\* equal columns and equal elements, so two matrices of one shape that differ
\* in an element compare unequal; a != b is the negation of a == b.
C13_EqualityIsElementwise ==
  /\ res.op \in EqualOps
     => res.out.truth = SameMatrix(before.m, before.operand)
  /\ res.op \in NotEqualOps
     => res.out.truth = ~SameMatrix(before.m, before.operand)

DivideOps == {"/= value", "/ value"}

DivideIntOps == {"Matrix<int> /= value", "Matrix<int> / value"}

\* x / y in int: the quotient rounded toward zero
Quotient(x, y) ==
  IF (x < 0) = (y < 0) THEN Abs(x) \div Abs(y) ELSE -(Abs(x) \div Abs(y))

\* C14 (as claimed): for every matrix and every nonzero scalar v, m / v and
\* m /= v give a matrix of the shape of m whose element (i, j) is m(i, j) / v
\* in the division of the element type, double or int.
C14_ScalarDivision ==
  res.op \in DivideOps \cup DivideIntOps
  => /\ res.out.err = "none"
     /\ SameShape(Produced, before.m)
     /\ Len(Produced.data) = before.m.rows * before.m.columns
     /\ \A ij \in Cells(Produced) :
          Elem(Produced, ij[1], ij[2]) =
            IF res.op \in DivideIntOps
            THEN Rat(Quotient(Elem(before.m, ij[1], ij[2])[1], res.a))
            ELSE RDiv(Elem(before.m, ij[1], ij[2]), Rat(res.a))

TransposeOps == {"transposed", "Transpose"}

\* C15: the transpose of m is returned, has m.columns rows and m.rows columns,
\* its element (i, j) is m(j, i), and m is what it was before the call.
C15_Transpose ==
  res.op \in TransposeOps
  => /\ res.out.err = "none"
     /\ res.out.kind = "matrix"
     /\ res.out.mat.rows = before.m.columns
     /\ res.out.mat.columns = before.m.rows
     /\ Len(res.out.mat.data) = before.m.rows * before.m.columns
     /\ \A ij \in Cells(res.out.mat) :
          Elem(res.out.mat, ij[1], ij[2]) = Elem(before.m, ij[2], ij[1])
     /\ m = before.m

C15_Witness ==
  /\ res.op = "transposed"
  /\ before.m = Mat(2, 3, <<Rat(1), Rat(2), Rat(3), Rat(4), Rat(5), Rat(6)>>)
  /\ m = before.m
  /\ res.out.mat = Mat(3, 2, <<Rat(1), Rat(4), Rat(2), Rat(5), Rat(3), Rat(6)>>)

RoundTripOps == {"(m + m) - m == m", "m.transposed().transposed() == m"}

\* C16: for every matrix m, (m + m) - m == m and the transpose of the
\* transpose of m == m, == being the equality of the library.
C16_RoundTrips ==
  res.op \in RoundTripOps
  => /\ res.out.err = "none"
     /\ res.out.kind = "bool"
     /\ res.out.truth

C16_Witness ==
  /\ res.op = "(m + m) - m == m"
  /\ before.m = Mat(2, 3, <<Rat(1), Rat(2), Rat(3), Rat(4), Rat(5), Rat(6)>>)
  /\ res.out.truth

MutatorOps == {"+=", "-=", "*=", "set_rows", "set_columns"}

\* C17: when +=, -=, *= by a matrix, set_rows or set_columns fails, the
\* receiver has the rows, the columns and the elements it had before the call.
C17_FailedMutatorLeavesReceiver ==
  (res.op \in MutatorOps /\ res.out.err # "none")
  => /\ m = before.m
     /\ res.out.err = CASE res.op \in {"+=", "-="} -> "SizeMismatch"
                        [] res.op = "*=" -> "InnerSizeMismatch"
                        [] OTHER -> "InvalidDimension"

C17_Witness ==
  /\ res.op = "*="
  /\ res.out.err = "InnerSizeMismatch"
  /\ before.m = Mat(2, 3, <<Rat(1), Rat(2), Rat(3), Rat(4), Rat(5), Rat(6)>>)
  /\ before.operand = Mat(2, 2, <<Rat(1), Rat(2), Rat(3), Rat(4)>>)
  /\ m = before.m

\* the operations that return a value and are declared not to change an operand
ValueOps ==
  {"+", "-", "*", "* value", "/ value", "unary -", "unary +", "transposed",
   "minor_matrix", "upper_triangle_matrix", "determinant", "complements_matrix",
   "inverse", "==", "!="}

\* the in-place operations that take or ignore an argument
InPlaceOps == {"+=", "-=", "*=", "/= value", "set_rows", "set_columns"}

\* C18: a value-returning operation leaves the receiver and the argument as
\* they were, and so does a later write into the matrix it returned; an
\* in-place operation leaves the argument as it was.
C18_Frame ==
  /\ res.op \in ValueOps => m = before.m /\ operand = before.operand
  /\ (res.op = "write" /\ res.a \in ValueOps)
     => m = before.m /\ operand = before.operand
  /\ res.op \in InPlaceOps => operand = before.operand

C18_Witness ==
  /\ res.op = "write"
  /\ res.a = "unary +"
  /\ before.m = Mat(2, 2, <<Rat(1), Rat(2), Rat(3), Rat(4)>>)
  /\ res.out.mat = Mat(2, 2, <<Written, Rat(2), Rat(3), Rat(4)>>)
  /\ m = before.m

Min(x, y) == IF x < y THEN x ELSE y

\* C19: after set_rows(n), n >= 1, the matrix has n rows and the columns it
\* had, element (i, j) is the old one for i < min(n, old rows) and zero for
\* i >= old rows; after set_columns(n) it has n columns and the rows it had,
\* element (i, j) is the old one for j < min(n, old columns) and zero for
\* j >= old columns.
C19_Resize ==
  /\ (res.op = "set_rows" /\ res.a >= 1)
     => /\ res.out.err = "none"
        /\ m.rows = res.a
        /\ m.columns = before.m.columns
        /\ Len(m.data) = res.a * before.m.columns
        /\ \A ij \in Cells(m) :
             /\ ij[1] < Min(res.a, before.m.rows)
                => Elem(m, ij[1], ij[2]) = Elem(before.m, ij[1], ij[2])
             /\ ij[1] >= before.m.rows => Elem(m, ij[1], ij[2]) = Zero
  /\ (res.op = "set_columns" /\ res.a >= 1)
     => /\ res.out.err = "none"
        /\ m.columns = res.a
        /\ m.rows = before.m.rows
        /\ Len(m.data) = res.a * before.m.rows
        /\ \A ij \in Cells(m) :
             /\ ij[2] < Min(res.a, before.m.columns)
                => Elem(m, ij[1], ij[2]) = Elem(before.m, ij[1], ij[2])
             /\ ij[2] >= before.m.columns => Elem(m, ij[1], ij[2]) = Zero

C19_Witness ==
  /\ res.op = "set_columns"
  /\ res.a = 3
  /\ before.m = Mat(2, 2, <<Rat(1), Rat(2), Rat(3), Rat(4)>>)
  /\ m = Mat(2, 3, <<Rat(1), Rat(2), Zero, Rat(3), Rat(4), Zero>>)

\* C20: checked access fails with OutOfRange exactly when row >= rows or
\* column >= columns; otherwise a read returns the element of linear index
\* row * columns + column and a write changes that element, no other element
\* and no dimension.
C20_CheckedAccess ==
  res.op \in {"get", "set"}
  => LET inside == res.a < before.m.rows /\ res.b < before.m.columns
         index == res.a * before.m.columns + res.b + 1
     IN  /\ res.out.err = "OutOfRange" <=> ~inside
         /\ ~inside => m = before.m
         /\ inside => res.out.err = "none"
         /\ (inside /\ res.op = "get")
            => /\ res.out.num = before.m.data[index]
               /\ m = before.m
         /\ (inside /\ res.op = "set")
            => /\ m.rows = before.m.rows
               /\ m.columns = before.m.columns
               /\ Len(m.data) = Len(before.m.data)
               /\ \A q \in 1..Len(m.data) :
                    m.data[q] = IF q = index THEN Written ELSE before.m.data[q]

C20_Witness ==
  /\ res.op = "set"
  /\ res.a = 1 /\ res.b = 1
  /\ before.m = Mat(2, 3, <<Rat(1), Rat(2), Rat(3), Rat(4), Rat(5), Rat(6)>>)
  /\ m = Mat(2, 3, <<Rat(1), Rat(2), Rat(3), Rat(4), Written, Rat(6)>>)

\* C21: matrix(rows, columns) throws InvalidDimension exactly when rows = 0 or
\* columns = 0, and then constructs nothing; otherwise the new matrix has
\* rows() = rows, columns() = columns and every element zero.
C21_SizedConstructor ==
  res.op = "matrix"
  => /\ res.out.err = "InvalidDimension" <=> (res.a = 0 \/ res.b = 0)
     /\ res.out.err \in {"none", "InvalidDimension"}
     /\ res.out.err # "none" => res.out.kind = "nothing" /\ res.out.mat = NoMatrix
     /\ res.out.err = "none"
        => /\ m.rows = res.a
           /\ m.columns = res.b
           /\ Len(m.data) = res.a * res.b
           /\ \A q \in 1..Len(m.data) : m.data[q] = Zero

C21_Witness ==
  /\ res.op = "matrix"
  /\ res.a = 1 /\ res.b = 3
  /\ res.out.err = "none"
  /\ m = Mat(1, 3, <<Zero, Zero, Zero>>)

\* C22: the initializer-list constructor throws InvalidDimension when the
\* list is empty or its first row is empty, RaggedInput when the first row is
\* not empty and some row's length differs from it, and constructs nothing
\* then; otherwise the matrix has as many rows as the list, as many columns as
\* the first row, and element (i, j) is the j-th item of the i-th row.
C22_ListConstructor ==
  res.op = "matrix_list"
  => LET items == res.b
         empty == Len(items) = 0 \/ Len(items[1]) = 0
         ragged == \E r \in 1..Len(items) : Len(items[r]) # Len(items[1])
     IN  /\ res.out.err = "InvalidDimension" <=> empty
         /\ res.out.err = "RaggedInput" <=> (~empty /\ ragged)
         /\ res.out.err = "none" <=> (~empty /\ ~ragged)
         /\ res.out.err # "none" => res.out.kind = "nothing" /\ res.out.mat = NoMatrix
         /\ res.out.err = "none"
            => /\ m.rows = Len(items)
               /\ m.columns = Len(items[1])
               /\ WellFormed(m)
               /\ \A c \in Cells(m) : Elem(m, c[1], c[2]) = items[c[1] + 1][c[2] + 1]

C22_Witness ==
  /\ res.op = "matrix_list"
  /\ res.b = <<<<One, Zero>>, <<One, One>>>>
  /\ res.out.err = "none"
  /\ m = Mat(2, 2, <<One, Zero, One, One>>)

\* the ragged list of the scenario, {{1, 2}, {3}} in shape, is refused
C22_RaggedWitness ==
  /\ res.op = "matrix_list"
  /\ res.b = <<<<One, Zero>>, <<One>>>>
  /\ res.out.err = "RaggedInput"

\* C23: for a vector v of N >= 1 elements, matrix(v, false) is 1 x N with
\* element (0, i) = v[i] and matrix(v, true) is N x 1 with element (i, 0) =
\* v[i], for every i < N.
C23_VectorConstructor ==
  res.op = "matrix_vector"
  => LET v == res.a
         N == Len(v)
     IN  /\ res.out.err = "none"
         /\ m.rows = (IF res.b THEN N ELSE 1)
         /\ m.columns = (IF res.b THEN 1 ELSE N)
         /\ WellFormed(m)
         /\ \A i \in 0..(N - 1) :
              Elem(m, IF res.b THEN i ELSE 0, IF res.b THEN 0 ELSE i) = v[i + 1]
         /\ \A a \in res.out.log : a[3] < a[1] /\ a[4] < a[2]

C23_Witness ==
  /\ res.op = "matrix_vector"
  /\ res.a = <<One, Zero, One>>
  /\ res.b = TRUE
  /\ m = Mat(3, 1, <<One, Zero, One>>)

\* what a call returned or threw, the accesses it made left out
Returned(out) == [err |-> out.err, kind |-> out.kind, mat |-> out.mat]

\* the method a unary operator symbol stands for, applied to mat in the class
\* the call was made in
Meaning(class, symbol, mat, junk) ==
  CASE symbol = "!" -> IF class = "matrix" THEN transposed(mat) ELSE Transpose(mat)
    [] symbol = "*" -> complements_matrix(mat, junk)
    [] symbol = "~" -> inverse(mat, junk)
    [] symbol = "-" -> Ok(Mat(mat.rows, mat.columns,
                              [q \in 1..Len(mat.data) |-> RMul(mat.data[q], Rat(-1))]), {})
    [] symbol = "+" -> Ok(mat, {})

MeaningInClass(class, symbol, mat, junk) ==
  IF class = "Matrix" /\ symbol = "!" THEN Inverse(mat, junk)
  ELSE Meaning(class, symbol, mat, junk)

C24_WitnessNot ==
  /\ res.op = "matrix operator"
  /\ res.a = "!"
  /\ m = Mat(2, 2, <<One, One, Zero, One>>)
  /\ res.out.mat = Mat(2, 2, <<One, Zero, One, One>>)

\* the text of mat laid out in rows between the characters open and close:
\* every row takes 2 * columns + 1 insertions and one more for the line break
\* that separates it from the next row
Layout(mat, open, close) ==
  LET width == 2 * mat.columns + 2
  IN  [q \in 1..(mat.rows * width - 1) |->
         LET i == (q - 1) \div width
             k == (q - 1) % width
         IN  IF k = 0 THEN <<open, Zero>>
             ELSE IF k = width - 1 THEN <<"endl", Zero>>
             ELSE IF k = width - 2 THEN <<close, Zero>>
             ELSE IF k % 2 = 1 THEN <<"value", Elem(mat, i, (k - 1) \div 2)>>
             ELSE <<" ", Zero>>]

PrintOps == {"operator<<", "Matrix operator<<"}

\* C25 (as claimed): printing a matrix writes, for each row in order, '{',
\* the row's elements in column order separated by exactly one space, and
\* '}', with exactly one line break between consecutive rows and nothing
\* after the last '}'.
C25_Printing ==
  res.op \in PrintOps => res.a = Layout(before.m, "{", "}")

\* C25 (amended): as claimed for Matrix<T>; class matrix writes the same
\* layout with '[' and ']' around every row.  The matrix printed is not
\* changed.
C25_PrintingPerClass ==
  /\ res.op = "Matrix operator<<" => res.a = Layout(before.m, "{", "}")
  /\ res.op = "operator<<" => res.a = Layout(before.m, "[", "]")
  /\ res.op \in PrintOps => m = before.m /\ operand = before.operand

C25_Witness ==
  /\ res.op = "Matrix operator<<"
  /\ before.m = Mat(2, 2, <<Rat(1), Rat(2), Rat(3), Rat(4)>>)
  /\ res.a = << <<"{", Zero>>, <<"value", Rat(1)>>, <<" ", Zero>>, <<"value", Rat(2)>>,
                <<"}", Zero>>, <<"endl", Zero>>,
                <<"{", Zero>>, <<"value", Rat(3)>>, <<" ", Zero>>, <<"value", Rat(4)>>,
                <<"}", Zero>> >>

\* a[i] for the vector a, 0 where a has no such element
Padded(a, i) == IF i < Len(a) THEN a[i + 1] ELSE Zero

\* C26 (as claimed), for the operators op of one vector class: after a += b
\* or a -= b, a.size is the larger of the old a.size and b.size; for
\* i < b.size, a[i] is the old a[i] (0 when i >= the old a.size) plus or minus
\* b[i]; for i >= b.size, a[i] is unchanged; no element of b at an index
\* >= b.size is read.
AddSubOfVectors(add, sub) ==
  res.op \in {add, sub}
  => LET a == before.m
         b == before.operand
     IN  /\ Len(m) = (IF Len(a) > Len(b) THEN Len(a) ELSE Len(b))
         /\ \A i \in 0..(Len(m) - 1) :
              m[i + 1] = IF i >= Len(b) THEN a[i + 1]
                         ELSE IF res.op = add THEN RAdd(Padded(a, i), b[i + 1])
                         ELSE RSub(Padded(a, i), b[i + 1])
         /\ \A i \in res.out.log : i < Len(b)
         /\ operand = b

\* C26 (as claimed): for both vector classes
C26_VectorAddSub ==
  /\ AddSubOfVectors("vector +=", "vector -=")
  /\ AddSubOfVectors("Vector +=", "Vector -=")

\* the part of C26 about the template Vector<T> alone
C26_TemplateVectorAddSub == AddSubOfVectors("Vector +=", "Vector -=")

\* a longer receiver and a shorter argument, class Vector<T>
C26_TemplateWitness ==
  /\ res.op = "Vector +="
  /\ before.m = <<Rat(1), Rat(2), Rat(2)>>
  /\ before.operand = <<Rat(1)>>
  /\ m = <<Rat(2), Rat(2), Rat(2)>>

\* mat without its row r and its column c
Without(mat, r, c) ==
  Mat(mat.rows - 1, mat.columns - 1,
      [q \in 1..((mat.rows - 1) * (mat.columns - 1)) |->
         LET i == (q - 1) \div (mat.columns - 1)
             j == (q - 1) % (mat.columns - 1)
         IN  Elem(mat, IF i >= r THEN i + 1 ELSE i, IF j >= c THEN j + 1 ELSE j)])

\* the determinant of the square matrix mat by the expansion along its first
\* row, the terms of the columns from j on
RECURSIVE Expansion(_, _)
Expansion(mat, j) ==
  IF mat.rows = 1 THEN mat.data[1]
  ELSE IF j >= mat.columns THEN Zero
  ELSE RAdd(RMul(RMul(IF j % 2 = 0 THEN One ELSE Rat(-1), Elem(mat, 0, j)),
                 Expansion(Without(mat, 0, j), 0)),
            Expansion(mat, j + 1))

\* C27: for a square matrix m of size n >= 1 the determinant returned by
\* either class, with or without the stop at a zero product, is the
\* determinant of m by cofactor expansion, sign included.
C27_DeterminantIsCofactorExpansion ==
  (res.op \in DeterminantOps /\ IsSquare(m))
  => /\ res.out.err = "none"
     /\ res.out.kind = "number"
     /\ res.out.num = Expansion(m, 0)

\* the pivot of column 0 is in row 1: {{0, 1}, {1, 0}} has determinant -1
C27_Witness ==
  /\ res.op = "determinant"
  /\ m = Mat(2, 2, <<Zero, One, One, Zero>>)
  /\ res.out.num = Rat(-1)

\* the same matrix in class Matrix<T>
C27_WitnessT ==
  /\ res.op = "Determinant"
  /\ m = Mat(2, 2, <<Zero, One, One, Zero>>)
  /\ res.out.num = Rat(-1)

\* mat with row i replaced by row i plus factor times row p
RowPlus(mat, i, factor, p) ==
  Mat(mat.rows, mat.columns,
      [q \in 1..Len(mat.data) |->
         IF (q - 1) \div mat.columns = i
         THEN RAdd(mat.data[q], RMul(factor, Elem(mat, p, (q - 1) % mat.columns)))
         ELSE mat.data[q]])

\* the rows from row j down with a nonzero element in column j
Pivots(mat, j) == {p \in j..(mat.rows - 1) : Elem(mat, p, j) # Zero}

\* the step of column j: nothing when column j is zero from row j down;
\* otherwise the first such row p is added to row j when p # j, and then
\* every row i > j with a nonzero element in column j has element (i, j) /
\* element (j, j) times row j subtracted
ColumnStep(mat, j) ==
  IF Pivots(mat, j) = {} THEN mat
  ELSE LET p == CHOOSE r \in Pivots(mat, j) : \A o \in Pivots(mat, j) : r <= o
           added == IF p # j THEN RowPlus(mat, j, One, p) ELSE mat
       IN  Mat(mat.rows, mat.columns,
               [q \in 1..Len(mat.data) |->
                  LET i == (q - 1) \div mat.columns
                      k == (q - 1) % mat.columns
                  IN  IF i > j /\ Elem(added, i, j) # Zero
                      THEN RSub(Elem(added, i, k),
                                RMul(RDiv(Elem(added, i, j), Elem(added, j, j)),
                                     Elem(added, j, k)))
                      ELSE Elem(added, i, k)])

\* the steps of the columns j, j + 1, ..., columns - 2, in this order
RECURSIVE ColumnSteps(_, _)
ColumnSteps(mat, j) ==
  IF j > mat.columns - 2 THEN mat ELSE ColumnSteps(ColumnStep(mat, j), j + 1)

\* C28: the upper triangle of m is m after the steps of the columns 0 to
\* columns - 2 in increasing order, each as ColumnStep says: rows are added,
\* never exchanged; a row i > j with a nonzero element in column j gets that
\* element zeroed; the rows i < j are not modified by the step of column j.
C28_TriangleByColumnSteps ==
  res.op \in TriangleOps
  => /\ res.out.err = "none"
     /\ res.out.mat = ColumnSteps(m, 0)
     /\ \A j \in 0..(m.columns - 2) :
          LET step == ColumnStep(m, j)
          IN  /\ \A i \in 0..(m.rows - 1), k \in 0..(m.columns - 1) :
                   i < j => Elem(step, i, k) = Elem(m, i, k)
              /\ Pivots(m, j) # {}
                 => \A i \in (j + 1)..(m.rows - 1) : Elem(step, i, j) = Zero

\* the pivot of column 0 is in row 1: row 1 is added to row 0 and then
\* subtracted from itself
C28_Witness ==
  /\ res.op = "upper_triangle_matrix"
  /\ m = Mat(2, 2, <<Zero, One, One, Zero>>)
  /\ res.out.mat = Mat(2, 2, <<One, One, Zero, Rat(-1)>>)

SelfOps == {"m += m", "m -= m", "m *= m"}

\* C29: with the receiver as its own argument an in-place operator computes
\* from the value the receiver had before the call: m += m doubles every
\* element, m -= m zeroes every element, and for a square m, m *= m leaves the
\* product of the prior m with itself; the shape is unchanged.
C29_SelfAssignment ==
  (res.op \in SelfOps /\ (res.op = "m *= m" => IsSquare(before.m)))
  => /\ res.out.err = "none"
     /\ SameShape(m, before.m)
     /\ Len(m.data) = Len(before.m.data)
     /\ \A ij \in Cells(m) :
          Elem(m, ij[1], ij[2]) =
            CASE res.op = "m += m" -> RMul(Rat(2), Elem(before.m, ij[1], ij[2]))
              [] res.op = "m -= m" -> Zero
              [] res.op = "m *= m" ->
                   DotSum(before.m, before.m, ij[1], ij[2], before.m.columns)

C29_Witness ==
  /\ res.op = "m *= m"
  /\ before.m = Mat(2, 2, <<Rat(1), Rat(2), Rat(3), Rat(4)>>)
  /\ m = Mat(2, 2, <<Rat(7), Rat(10), Rat(15), Rat(22)>>)

\* the product of the complex numbers x and y
ComplexProduct(x, y) == [a |-> x.a * y.a - x.i * y.i, i |-> x.a * y.i + x.i * y.a]

\* C30 (as claimed): for x = a + bi and y = c + di of Complex<int>, x *= y
\* and x * y give the real part a * c - b * d and the imaginary part
\* a * d + b * c of the values x and y had before the call, and
\* x * y == y * x.
C30_ComplexMultiplication ==
  /\ res.op = "Complex *=" => m = ComplexProduct(before.m, before.operand)
  /\ res.op = "Complex *" => res.a = ComplexProduct(before.m, before.operand)
  /\ res.op = "Complex x * y == y * x" => res.out.truth

\* the real part alone is as claimed
C30_RealPart ==
  /\ res.op = "Complex *=" => m.a = ComplexProduct(before.m, before.operand).a
  /\ res.op = "Complex *" => res.a.a = ComplexProduct(before.m, before.operand).a

====
